---- MODULE Spec2Model ----
(***************************************************************************)
(* Model of the diagnostic renderer of error_reporter:                     *)
(*   compiler_message.rs  CompilerMessage and its builder calls            *)
(*   styled_buffer.rs     StyledBuffer, the grid of (char, style) cells    *)
(*   render_succinct.rs   preprocess_annotations, render_succinct,         *)
(*                        render_source_line, overlaps                     *)
(*   main.rs              emit, on the Destination of destination.rs       *)
(* Text is a sequence of one-character strings.  Grid rows and columns are *)
(* 0-based in the code; row r is element r + 1 of a sequence here.         *)
(***************************************************************************)
EXTENDS Integers, Sequences, FiniteSets, TLC

VARIABLES
    input,                \* what the caller draws its builder calls from
    msg,                  \* the CompilerMessage
    pc,                   \* where the caller and render_succinct are
    buffer,               \* render_succinct's StyledBuffer
    annotated_files,      \* render_succinct's Vec<FileWithAnnotatedLines>
    len_of_max_line_num,  \* render_succinct's gutter digit count
    file_idx,             \* files of annotated_files already rendered
    layout,               \* per rendered file: the rows its block and lines took
    files_end,            \* the row count when the last file block was done
    out,                  \* the value render_succinct returns
    libcore,              \* which binary search the build's libcore has, once seen
    first_out,            \* what the first of two calls of render_succinct returned
    sink,                 \* what emit has sent to its Destination, in order
    call                  \* the last call made on a StyledBuffer used on its own

vars == <<input, msg, pc, buffer, annotated_files, len_of_max_line_num, file_idx,
          layout, files_end, out, libcore, first_out, sink, call>>

\* ------------------------------------------------------------------ bounds

\* Builder calls (span_label, note) made on one message before it is rendered.
MaxCalls == 3

\* ------------------------------------------------------------ text helpers

Digits == <<"0", "1", "2", "3", "4", "5", "6", "7", "8", "9">>

\* usize::to_string: the decimal digits of n, most significant first.
RECURSIVE to_string(_)
to_string(n) ==
    IF n < 10 THEN <<Digits[n + 1]>>
    ELSE to_string(n \div 10) \o <<Digits[(n % 10) + 1]>>

\* str::len of one character: its length in UTF-8 bytes.
ByteLen(ch) == IF ch \in {"é", "ü"} THEN 2 ELSE 1

RECURSIVE str_len(_)
str_len(s) == IF s = <<>> THEN 0 ELSE ByteLen(Head(s)) + str_len(Tail(s))

\* Code points of the characters that labels are made of, for String's Ord.
CharCode(ch) ==
    CASE ch = "A" -> 65 [] ch = "B" -> 66 [] ch = "C" -> 67 [] ch = "D" -> 68
      [] ch = "Z" -> 90 [] ch = "a" -> 97 [] ch = "b" -> 98 [] ch = "c" -> 99
      [] OTHER -> 0

\* Ordering of two Strings (lexicographic): -1, 0, 1.
RECURSIVE cmp_str(_, _)
cmp_str(s, t) ==
    IF s = <<>> THEN (IF t = <<>> THEN 0 ELSE -1)
    ELSE IF t = <<>> THEN 1
    ELSE IF CharCode(Head(s)) < CharCode(Head(t)) THEN -1
    ELSE IF CharCode(Head(s)) > CharCode(Head(t)) THEN 1
    ELSE cmp_str(Tail(s), Tail(t))

\* Option<T>: None, or Some(v).
None == [some |-> FALSE, val |-> <<>>]
Some(v) == [some |-> TRUE, val |-> v]

\* ---------------------------------------------------------------- codemap
\* The codemap is not part of the rendering core; it is modelled at its
\* interface: three files laid out one after the other in one byte space,
\* every line LineWidth characters and a newline.

FileMaps ==
    << [name |-> "b", start_pos |-> 0,   num_lines |-> 12],
       [name |-> "a", start_pos |-> 73,  num_lines |-> 4],
       [name |-> "c", start_pos |-> 98,  num_lines |-> 2] >>

LineStride == 6

\* Index of the file holding byte position pos: the last one starting at or
\* before it.
FileIndexOf(pos) ==
    CHOOSE i \in 1..Len(FileMaps) :
        /\ FileMaps[i].start_pos <= pos
        /\ \A j \in 1..Len(FileMaps) :
              FileMaps[j].start_pos <= pos => FileMaps[j].start_pos <= FileMaps[i].start_pos

\* CodeMap::lookup_char_pos: file, 1-based line and 0-based column of pos.
lookup_char_pos(pos) ==
    LET f == FileMaps[FileIndexOf(pos)]
        off == pos - f.start_pos
    IN [file |-> f, line |-> (off \div LineStride) + 1, col |-> off % LineStride]

\* The text of line index idx (0-based) of a file; line 3 of file a has a tab.
LineText(f, idx) ==
    IF f.name = "a" /\ idx = 2 THEN <<"a", "\t", "x", "y", "z">>
    ELSE <<f.name, Digits[((idx + 1) % 10) + 1], "x", "y", "z">>

\* FileMap::get_line: the text of the line at a 0-based index, if there is one.
get_line(f, idx) ==
    IF idx >= 0 /\ idx < f.num_lines THEN Some(LineText(f, idx)) ELSE None

unwrap_or(opt, dflt) == IF opt.some THEN opt.val ELSE dflt

\* Byte position of (line, col) in the file called name, as the tests'
\* span_substr computes it from the file's start_pos.
BytePos(name, line, col) ==
    LET f == FileMaps[CHOOSE i \in 1..Len(FileMaps) : FileMaps[i].name = name]
    IN f.start_pos + (line - 1) * LineStride + col

Span(name, l1, c1, l2, c2) ==
    [lo |-> BytePos(name, l1, c1), hi |-> BytePos(name, l2, c2)]

\* ------------------------------------------------------------ StyledBuffer
\* A buffer is handed from call to call as an operator argument: the steps
\* of a function are operators applied one to the result of the other.

LevelStyle(level) == "Level:" \o level

\* StyledBuffer::new
NewBuffer == [text |-> <<>>, styles |-> <<>>]

\* TLC computes an operator's argument when it is first used, so a loop that
\* hands the buffer on from turn to turn would pile its turns up; testing
\* Ready(b) computes b before the next turn.  It is true of every buffer.
Ready(b) == b = b

\* StyledBuffer::num_lines
num_lines(b) == Len(b.text)

\* StyledBuffer::ensure_lines: push empty rows while line >= the row count.
RECURSIVE ensure_lines(_, _)
ensure_lines(b, line) ==
    IF line >= Len(b.text)
    THEN ensure_lines([text |-> Append(b.text, <<>>),
                       styles |-> Append(b.styles, <<>>)], line)
    ELSE b

\* putc padding with a space whatever row 0 holds.
PadChar_space(b, i) == " "

\* putc padding that follows the tabs of the row above the last row.
PadChar_row_above(b, i) ==
    IF Len(b.text) > 1 /\ i < Len(b.text[Len(b.text) - 1])
       /\ b.text[Len(b.text) - 1][i + 1] = "\t"
    THEN "\t" ELSE " "

\* The padding character of putc for column i: the tab of row 0, or a space.
PadChar(b, i) ==
    IF i < Len(b.text[1]) /\ b.text[1][i + 1] = "\t" THEN "\t" ELSE " "

\* The while loop of putc: pad row `line` up to column col.
RECURSIVE pad_to(_, _, _)
pad_to(b, line, col) ==
    IF Len(b.text[line + 1]) < col
    THEN pad_to([text |-> [b.text EXCEPT ![line + 1] = Append(@, PadChar(b, Len(@)))],
                 styles |-> [b.styles EXCEPT ![line + 1] = Append(@, "NoStyle")]],
                line, col)
    ELSE b

\* The else branch of putc once the row is padded: push the cell.
push_cell(b, line, chr, style) ==
    [text |-> [b.text EXCEPT ![line + 1] = Append(@, chr)],
     styles |-> [b.styles EXCEPT ![line + 1] = Append(@, style)]]

\* putc after ensure_lines.
putc_cell(b, line, col, chr, style) ==
    IF col < Len(b.text[line + 1])
    THEN [text |-> [b.text EXCEPT ![line + 1][col + 1] = chr],
          styles |-> [b.styles EXCEPT ![line + 1][col + 1] = style]]
    ELSE push_cell(pad_to(b, line, col), line, chr, style)

\* StyledBuffer::putc
putc(b, line, col, chr, style) == putc_cell(ensure_lines(b, line), line, col, chr, style)

\* StyledBuffer::puts: one putc per char, the column advancing by one.  The
\* loop over the chars is split in two: the second half starts from the
\* buffer the first half left, at the column where it ended.
RECURSIVE puts(_, _, _, _, _)
puts(b, line, col, string, style) ==
    IF ~Ready(b) THEN b ELSE IF string = <<>> THEN b
    ELSE IF Len(string) = 1 THEN putc(b, line, col, string[1], style)
    ELSE LET front == puts(b, line, col, SubSeq(string, 1, Len(string) \div 2), style)
         IN IF ~Ready(front) THEN front
            ELSE puts(front, line, col + (Len(string) \div 2),
                      SubSeq(string, (Len(string) \div 2) + 1, Len(string)), style)

\* set_style that makes the cell it is aimed at when it is not there.
set_style_extending(b, line, col, style) ==
    IF Len(b.styles) > line /\ Len(b.styles[line + 1]) > col
    THEN [b EXCEPT !.styles[line + 1][col + 1] = style]
    ELSE putc(b, line, col, " ", style)

\* StyledBuffer::set_style
set_style(b, line, col, style) ==
    IF Len(b.styles) > line /\ Len(b.styles[line + 1]) > col
    THEN [b EXCEPT !.styles[line + 1][col + 1] = style]
    ELSE b

\* prepend without its insert loop: the string is written over the row's start.
insert_front_none(b, line, n) == b

\* The insert loop of prepend: n cells (' ', NoStyle) put in front of the row.
RECURSIVE insert_front(_, _, _)
insert_front(b, line, n) ==
    IF n = 0 THEN b
    ELSE insert_front([text |-> [b.text EXCEPT ![line + 1] = <<" ">> \o @],
                       styles |-> [b.styles EXCEPT ![line + 1] = <<"NoStyle">> \o @]],
                      line, n - 1)

\* StyledBuffer::prepend; string.len() counts bytes.
prepend(b, line, string, style) ==
    puts(insert_front(ensure_lines(b, line), line, str_len(string)), line, 0, string, style)

\* StyledBuffer::append
append(b, line, string, style) ==
    puts(b, line, IF line >= Len(b.text) THEN 0 ELSE Len(b.text[line + 1]), string, style)

\* A run cut after its first cell.
run_end_one_cell(row_style, i) == i

\* The last cell of the run of equal style that starts at cell i of a row.
run_end(row_style, i) ==
    CHOOSE j \in i..Len(row_style) :
        /\ \A k \in i..j : row_style[k] = row_style[i]
        /\ j = Len(row_style) \/ row_style[j + 1] # row_style[i]

\* The inner loop of render over one row, a run of equal style at a time: the
\* loop collects the chars of a run in current_text and pushes the run when
\* the style changes or the row ends; the text it starts with is empty and
\* is not pushed.  acc holds the runs pushed so far.
RECURSIVE render_row(_, _, _, _)
render_row(row, row_style, i, acc) ==
    IF i > Len(row) THEN acc
    ELSE render_row(row, row_style, run_end(row_style, i) + 1,
                    Append(acc, [text |-> SubSeq(row, i, run_end(row_style, i)),
                                 style |-> row_style[i]]))

\* StyledBuffer::render
render(b) ==
    [r \in 1..Len(b.text) |-> render_row(b.text[r], b.styles[r], 1, <<>>)]

\* ---------------------------------------------------------- Level, message

Levels == {"Bug", "Fatal", "PhaseFatal", "Error", "Warning", "Note", "Help", "Cancelled"}

\* Level::to_string; None stands for the panic of the Cancelled arm.
level_to_string(level) ==
    CASE level = "Bug" ->
           Some(<<"e","r","r","o","r",":"," ","i","n","t","e","r","n","a","l"," ",
                  "c","o","m","p","i","l","e","r"," ","e","r","r","o","r">>)
      [] level \in {"Fatal", "PhaseFatal", "Error"} -> Some(<<"e","r","r","o","r">>)
      [] level = "Warning" -> Some(<<"w","a","r","n","i","n","g">>)
      [] level = "Note" -> Some(<<"n","o","t","e">>)
      [] level = "Help" -> Some(<<"h","e","l","p">>)
      [] level = "Cancelled" -> None

\* CompilerMessage::new
NewMessage(level, primary_msg, primary_span, error_code) ==
    [level |-> level, primary_span |-> primary_span, primary_msg |-> primary_msg,
     error_code |-> error_code, span_labels |-> <<>>, notes |-> <<>>]

\* span_label that flags a label primary only if none before it is.
span_label_single_primary(m, span, label) ==
    [m EXCEPT !.span_labels =
        Append(@, [span |-> span,
                   is_primary |-> (span = m.primary_span
                                   /\ \A i \in 1..Len(m.span_labels) :
                                          ~m.span_labels[i].is_primary),
                   label |-> label])]

\* CompilerMessage::span_label
span_label(m, span, label) ==
    [m EXCEPT !.span_labels =
        Append(@, [span |-> span, is_primary |-> (span = m.primary_span), label |-> label])]

\* CompilerMessage::note
note(m, text) == [m EXCEPT !.notes = Append(@, text)]

\* ------------------------------------------------- Annotation, Line: Ord

cmp_int(x, y) == IF x < y THEN -1 ELSE IF x > y THEN 1 ELSE 0

cmp_bool(x, y) == IF x = y THEN 0 ELSE IF y THEN -1 ELSE 1

cmp_opt_str(x, y) ==
    IF ~x.some THEN (IF y.some THEN -1 ELSE 0)
    ELSE IF ~y.some THEN 1
    ELSE cmp_str(x.val, y.val)

\* #[derive(Ord)] of Annotation: the fields in declaration order.
cmp_annotation(a, b) ==
    IF cmp_int(a.start_col, b.start_col) # 0 THEN cmp_int(a.start_col, b.start_col)
    ELSE IF cmp_int(a.end_col, b.end_col) # 0 THEN cmp_int(a.end_col, b.end_col)
    ELSE IF cmp_bool(a.is_primary, b.is_primary) # 0 THEN cmp_bool(a.is_primary, b.is_primary)
    ELSE IF cmp_bool(a.is_minimized, b.is_minimized) # 0
         THEN cmp_bool(a.is_minimized, b.is_minimized)
    ELSE cmp_opt_str(a.label, b.label)

\* Ord of Vec<Annotation>: lexicographic.
RECURSIVE cmp_annotations(_, _)
cmp_annotations(s, t) ==
    IF s = <<>> THEN (IF t = <<>> THEN 0 ELSE -1)
    ELSE IF t = <<>> THEN 1
    ELSE IF cmp_annotation(Head(s), Head(t)) # 0 THEN cmp_annotation(Head(s), Head(t))
    ELSE cmp_annotations(Tail(s), Tail(t))

\* #[derive(Ord)] of Line
cmp_line(a, b) ==
    IF cmp_int(a.line_number, b.line_number) # 0 THEN cmp_int(a.line_number, b.line_number)
    ELSE cmp_annotations(a.annotations, b.annotations)

\* Vec<Annotation>::sort (stable): insertion of x after the elements <= x.
RECURSIVE insert_annotation(_, _)
insert_annotation(sorted, x) ==
    IF sorted = <<>> THEN <<x>>
    ELSE IF cmp_annotation(x, Head(sorted)) < 0 THEN <<x>> \o sorted
    ELSE <<Head(sorted)>> \o insert_annotation(Tail(sorted), x)

RECURSIVE sort_from(_, _)
sort_from(sorted, rest) ==
    IF rest = <<>> THEN sorted
    ELSE sort_from(insert_annotation(sorted, Head(rest)), Tail(rest))

\* The annotations left in the order the labels were added.
sort_annotations_unsorted(s) == s

sort_annotations(s) == sort_from(<<>>, s)

\* Vec<Line>::sort (stable)
RECURSIVE insert_line(_, _)
insert_line(sorted, x) ==
    IF sorted = <<>> THEN <<x>>
    ELSE IF cmp_line(x, Head(sorted)) < 0 THEN <<x>> \o sorted
    ELSE <<Head(sorted)>> \o insert_line(Tail(sorted), x)

RECURSIVE sort_lines_from(_, _)
sort_lines_from(sorted, rest) ==
    IF rest = <<>> THEN sorted
    ELSE sort_lines_from(insert_line(sorted, Head(rest)), Tail(rest))

sort_lines(s) == sort_lines_from(<<>>, s)

\* -------------------------------------------------- preprocess_annotations

\* The Line of slot that has line_number, as an index, or 0.
LineSlot(lines, line_number) ==
    IF \E i \in 1..Len(lines) : lines[i].line_number = line_number
    THEN CHOOSE i \in 1..Len(lines) :
            /\ lines[i].line_number = line_number
            /\ \A j \in 1..(i - 1) : lines[j].line_number # line_number
    ELSE 0

\* The first slot of file_vec holding the file called name, as an index, or 0.
FileSlot(file_vec, name) ==
    IF \E i \in 1..Len(file_vec) : file_vec[i].file.name = name
    THEN CHOOSE i \in 1..Len(file_vec) :
            /\ file_vec[i].file.name = name
            /\ \A j \in 1..(i - 1) : file_vec[j].file.name # name
    ELSE 0

\* add_annotation_to_file without slot.lines.sort(): a new line stays last.
add_annotation_to_file_unsorted(file_vec, file, line_number, ann) ==
    LET s == FileSlot(file_vec, file.name)
    IN IF s # 0
       THEN LET l == LineSlot(file_vec[s].lines, line_number)
            IN IF l # 0
               THEN [file_vec EXCEPT ![s].lines[l].annotations = Append(@, ann)]
               ELSE [file_vec EXCEPT ![s].lines =
                        Append(@, [line_number |-> line_number, annotations |-> <<ann>>])]
       ELSE Append(file_vec,
                   [file |-> file,
                    lines |-> <<[line_number |-> line_number, annotations |-> <<ann>>]>>])

\* add_annotation_to_file
add_annotation_to_file(file_vec, file, line_number, ann) ==
    LET s == FileSlot(file_vec, file.name)
    IN IF s # 0
       THEN LET l == LineSlot(file_vec[s].lines, line_number)
            IN IF l # 0
               THEN [file_vec EXCEPT ![s].lines[l].annotations = Append(@, ann)]
               ELSE [file_vec EXCEPT ![s].lines =
                        sort_lines(Append(@, [line_number |-> line_number,
                                              annotations |-> <<ann>>]))]
       ELSE Append(file_vec,
                   [file |-> file,
                    lines |-> <<[line_number |-> line_number, annotations |-> <<ann>>]>>])

\* The Annotation that the loop body of preprocess_annotations builds for one
\* span label.  The code computes (start_col, end_col, is_minimized) and then
\* fills the struct from lo.col and hi.col: only is_minimized is used.
make_annotation(sl) ==
    LET lo == lookup_char_pos(sl.span.lo)
        hi == lookup_char_pos(sl.span.hi)
        is_minimized == lo.line # hi.line
    IN [start_col |-> lo.col, end_col |-> hi.col, is_primary |-> sl.is_primary,
        is_minimized |-> is_minimized, label |-> sl.label]

RECURSIVE preprocess_from(_, _)
preprocess_from(output, labels) ==
    IF labels = <<>> THEN output
    ELSE LET sl == Head(labels)
             lo == lookup_char_pos(sl.span.lo)
         IN preprocess_from(
                add_annotation_to_file(output, lo.file, lo.line, make_annotation(sl)),
                Tail(labels))

\* preprocess_annotations with an output vector that outlives the call: it
\* starts from the files the call before left behind.
preprocess_annotations_kept(m) == preprocess_from(annotated_files, m.span_labels)

\* preprocess_annotations: `let mut output = vec![]`, then the loop.
preprocess_annotations(m) == preprocess_from(<<>>, m.span_labels)

\* get_max_line_num
RECURSIVE max_line_from(_, _)
max_line_from(max, labels) ==
    IF labels = <<>> THEN max
    ELSE LET hi == lookup_char_pos(Head(labels).span.hi)
         IN max_line_from(IF hi.line > max THEN hi.line ELSE max, Tail(labels))

\* get_max_line_num that looks at the primary span only.
get_max_line_num_primary(m) == lookup_char_pos(m.primary_span.hi).line

get_max_line_num(m) == max_line_from(0, m.span_labels)

\* ------------------------------------------------------ primary file first

\* Result<usize, usize>
Ok(pos) == [ok |-> TRUE, pos |-> pos]
Err(pos) == [ok |-> FALSE, pos |-> pos]

\* <[T]>::binary_search_by with the closure |x| x.file.name.cmp(name), as the
\* loop of libcore halves the range: probe base + lim / 2.  Positions 0-based.
RECURSIVE binary_search_loop(_, _, _, _)
binary_search_loop(files, name, base, lim) ==
    IF lim = 0 THEN Err(base)
    ELSE LET ix == base + (lim \div 2)
             c == cmp_str(<<files[ix + 1].file.name>>, <<name>>)
         IN IF c = 0 THEN Ok(ix)
            ELSE IF c < 0 THEN binary_search_loop(files, name, ix + 1, (lim - 1) \div 2)
            ELSE binary_search_loop(files, name, base, lim \div 2)

\* The same search as later libcore versions run it: the range is halved
\* without an early exit and the last candidate compared once at the end.
RECURSIVE binary_search_halving(_, _, _, _)
binary_search_halving(files, name, base, size) ==
    IF size > 1
    THEN LET half == size \div 2
             mid == base + half
             c == cmp_str(<<files[mid + 1].file.name>>, <<name>>)
         IN binary_search_halving(files, name, IF c > 0 THEN base ELSE mid, size - half)
    ELSE LET c == cmp_str(<<files[base + 1].file.name>>, <<name>>)
         IN IF c = 0 THEN Ok(base) ELSE Err(base + (IF c < 0 THEN 1 ELSE 0))

\* The builds told apart: libcore with the early-exit loop, and libcore with
\* the halving loop.
Builds == {"loop", "halving"}

\* The search of one build.
binary_search_of(build, files, name) ==
    IF files = <<>> THEN Err(0)
    ELSE IF build = "loop" THEN binary_search_loop(files, name, 0, Len(files))
    ELSE binary_search_halving(files, name, 0, Len(files))

\* The results binary_search_by may give: its result on a slice that is not
\* sorted is unspecified, so the search loops of both builds are outcomes.
binary_search_by(files, name) ==
    {binary_search_of(build, files, name) : build \in Builds}

\* A build links one libcore, so every search of one run of the program runs
\* the same loop.  seen is "unseen" as long as every search of the run has
\* given what both builds give, and the build from the first search on that
\* told the builds apart.
builds_left(seen) == IF seen = "unseen" THEN Builds ELSE {seen}

\* The results a search may give in a run that has seen `seen`.
binary_search_seen(seen, files, name) ==
    {binary_search_of(build, files, name) : build \in builds_left(seen)}

\* What the run has seen once the search has given `found`.
build_seen(seen, files, name, found) ==
    IF seen = "unseen" /\ binary_search_by(files, name) # {found}
    THEN CHOOSE build \in Builds : binary_search_of(build, files, name) = found
    ELSE seen

\* Vec::swap(0, pos), pos 0-based
swap0(files, pos) ==
    [files EXCEPT ![1] = files[pos + 1], ![pos + 1] = files[1]]

\* reorder without the swap: the files stay as the preprocessor saw them.
reorder_unswapped(files, found) == files

\* lines 64-68 of render_succinct: the file of the primary span goes first.
reorder(files, found) ==
    IF found.ok THEN swap0(files, found.pos) ELSE files

\* ------------------------------------------------------ render_source_line

check_old_school == FALSE

Gutter == <<"|", ">">>

\* overlaps; (lo..hi).contains(x) is lo <= x < hi.
overlaps(a1, a2) ==
    \/ (a2.start_col <= a1.start_col /\ a1.start_col < a2.end_col)
    \/ (a1.start_col <= a2.start_col /\ a2.start_col < a1.end_col)

underline_style(a) == IF a.is_primary THEN "UnderlinePrimary" ELSE "UnderlineSecondary"
label_style(a) == IF a.is_primary THEN "LabelPrimary" ELSE "LabelSecondary"

\* A highlight loop that draws every marker as a caret.
marker_char_caret(a, p) == "^"

\* The marker the highlight loop puts at column p, lines 308-352.
marker_char(a, p) ==
    IF check_old_school THEN (IF p = a.start_col THEN "^" ELSE "~")
    ELSE IF a.is_primary THEN "^" ELSE "-"

marker_style(a) ==
    IF check_old_school
    THEN (IF a.is_primary THEN "UnderlinePrimary" ELSE "OldSchoolNote")
    ELSE underline_style(a)

\* A restyle that does not look at is_minimized.
restyle_source_always(b, line_offset, width_offset, a, p) ==
    set_style(b, line_offset, width_offset + p, underline_style(a))

\* Lines 337-341 and 347-351: the source cell above the marker is restyled
\* unless the annotation is minimized.
restyle_source(b, line_offset, width_offset, a, p) ==
    IF ~check_old_school /\ ~a.is_minimized
    THEN set_style(b, line_offset, width_offset + p, underline_style(a))
    ELSE b

\* One turn of `for p in annotation.start_col..annotation.end_col`.
underline_cell(b, line_offset, width_offset, a, p) ==
    restyle_source(putc(b, line_offset + 1, width_offset + p, marker_char(a, p),
                        marker_style(a)),
                   line_offset, width_offset, a, p)

\* for p in annotation.start_col..annotation.end_col
RECURSIVE underline_annotation(_, _, _, _, _)
underline_annotation(b, line_offset, width_offset, a, p) ==
    IF ~Ready(b) THEN b ELSE IF p >= a.end_col THEN b
    ELSE underline_annotation(underline_cell(b, line_offset, width_offset, a, p),
                              line_offset, width_offset, a, p + 1)

\* for annotation in &annotations
RECURSIVE underline_pass(_, _, _, _)
underline_pass(b, line_offset, width_offset, annotations) ==
    IF ~Ready(b) THEN b ELSE IF annotations = <<>> THEN b
    ELSE underline_pass(underline_annotation(b, line_offset, width_offset,
                                             Head(annotations), Head(annotations).start_col),
                        line_offset, width_offset, Tail(annotations))

\* Iterator::partition by label.is_some(): the order is kept in both halves.
labeled_of(annotations) == SelectSeq(annotations, LAMBDA a : a.label.some)
unlabeled_of(annotations) == SelectSeq(annotations, LAMBDA a : ~a.label.some)

\* inline_fits that looks at the labeled annotations only.
inline_fits_labeled(labeled, unlabeled) ==
    \A i \in 1..(Len(labeled) - 1) : ~overlaps(labeled[i], labeled[Len(labeled)])

\* The test of lines 409-411: no earlier labeled and no unlabeled annotation
\* overlaps the last labeled one.
inline_fits(labeled, unlabeled) ==
    /\ \A i \in 1..(Len(labeled) - 1) : ~overlaps(labeled[i], labeled[Len(labeled)])
    /\ \A i \in 1..Len(unlabeled) : ~overlaps(unlabeled[i], labeled[Len(labeled)])

\* One turn of `for index in 2..blank_lines`: the connector and the gutter.
connector_row(b, line_offset, width_offset, a, index) ==
    puts(putc(b, line_offset + index, width_offset + a.start_col, "|", underline_style(a)),
         line_offset + index, width_offset - 2, Gutter, "LineNumber")

\* A loop over the blank lines that draws nothing.
connector_rows_none(b, line_offset, width_offset, a, index, blank_lines) == b

\* for index in 2..blank_lines
RECURSIVE connector_rows(_, _, _, _, _, _)
connector_rows(b, line_offset, width_offset, a, index, blank_lines) ==
    IF ~Ready(b) THEN b ELSE IF index >= blank_lines THEN b
    ELSE connector_rows(connector_row(b, line_offset, width_offset, a, index),
                        line_offset, width_offset, a, index + 1, blank_lines)

\* Lines 457-471: the label of one stacked annotation and the gutter of its row.
stacked_label(b, line_offset, width_offset, a, blank_lines) ==
    puts(puts(b, line_offset + blank_lines, width_offset + a.start_col, a.label.val,
              label_style(a)),
         line_offset + blank_lines, width_offset - 2, Gutter, "LineNumber")

\* stacked_labels that leaves one line for each thing that comes before:
\* blank_lines = 3 + index.
RECURSIVE stacked_labels_below(_, _, _, _, _)
stacked_labels_below(b, line_offset, width_offset, labeled, index) ==
    IF ~Ready(b) THEN b ELSE IF index >= Len(labeled) THEN b
    ELSE stacked_labels_below(
            stacked_label(
                connector_rows(b, line_offset, width_offset, labeled[index + 1], 2, 3 + index),
                line_offset, width_offset, labeled[index + 1], 3 + index),
            line_offset, width_offset, labeled, index + 1)

\* for (index, annotation) in labeled_annotations.iter().enumerate(); index
\* 0-based, comes_after = len - index - 1 and blank_lines = 3 + comes_after.
RECURSIVE stacked_labels(_, _, _, _, _)
stacked_labels(b, line_offset, width_offset, labeled, index) ==
    IF ~Ready(b) THEN b ELSE IF index >= Len(labeled) THEN b
    ELSE stacked_labels(
            stacked_label(
                connector_rows(b, line_offset, width_offset, labeled[index + 1], 2,
                               3 + (Len(labeled) - index - 1)),
                line_offset, width_offset, labeled[index + 1],
                3 + (Len(labeled) - index - 1)),
            line_offset, width_offset, labeled, index + 1)

\* place_labels with the inline label written right after the underline of
\* its own annotation.
place_labels_own_end(b, line_offset, width_offset, labeled, unlabeled) ==
    IF inline_fits(labeled, unlabeled)
    THEN stacked_labels(
            puts(b, line_offset + 1, width_offset + labeled[Len(labeled)].end_col,
                 <<" ">> \o labeled[Len(labeled)].label.val,
                 label_style(labeled[Len(labeled)])),
            line_offset, width_offset, SubSeq(labeled, 1, Len(labeled) - 1), 0)
    ELSE stacked_labels(b, line_offset, width_offset, labeled, 0)

\* Lines 406-472: the label of the last labeled annotation goes on the
\* highlight row when nothing overlaps it; the labels left hang below.
place_labels(b, line_offset, width_offset, labeled, unlabeled) ==
    IF inline_fits(labeled, unlabeled)
    THEN stacked_labels(
            append(b, line_offset + 1, <<" ">> \o labeled[Len(labeled)].label.val,
                   label_style(labeled[Len(labeled)])),
            line_offset, width_offset, SubSeq(labeled, 1, Len(labeled) - 1), 0)
    ELSE stacked_labels(b, line_offset, width_offset, labeled, 0)

\* Lines 358-369: nothing more is written when no annotation has a label.
label_rows(b, line_offset, width_offset, annotations) ==
    IF ~Ready(b) THEN b ELSE IF labeled_of(annotations) = <<>> \/ check_old_school THEN b
    ELSE place_labels(b, line_offset, width_offset, labeled_of(annotations),
                      unlabeled_of(annotations))

\* Lines 302-356: the highlight row of the sorted annotations and its gutter.
highlight_row(b, line_offset, width_offset, annotations) ==
    puts(underline_pass(b, line_offset, width_offset, annotations),
         line_offset + 1, width_offset - 2, Gutter, "LineNumber")

\* Lines 276-472: what follows the source row.
annotate_line(b, line_offset, width_offset, line) ==
    IF ~Ready(b) THEN b ELSE IF line.annotations = <<>> THEN b
    ELSE label_rows(highlight_row(b, line_offset, width_offset,
                                  sort_annotations(line.annotations)),
                    line_offset, width_offset, sort_annotations(line.annotations))

\* The source row written only when the codemap has the text of the line.
source_row_of_text(b, line_offset, width_offset, file, line) ==
    IF ~get_line(file, line.line_number - 1).some THEN b
    ELSE puts(puts(puts(b, line_offset, width_offset,
                        get_line(file, line.line_number - 1).val, "Quotation"),
                   line_offset, 0, to_string(line.line_number), "LineNumber"),
              line_offset, width_offset - 2, Gutter, "LineNumber")

\* Lines 262-274: the source text, the line number and the gutter.
source_row(b, line_offset, width_offset, file, line) ==
    puts(puts(puts(b, line_offset, width_offset,
                   unwrap_or(get_line(file, line.line_number - 1), <<>>), "Quotation"),
              line_offset, 0, to_string(line.line_number), "LineNumber"),
         line_offset, width_offset - 2, Gutter, "LineNumber")

\* render_source_line; line_offset is buffer.num_lines() on entry.
render_source_line(b, file, line, width_offset) ==
    annotate_line(source_row(b, num_lines(b), width_offset, file, line),
                  num_lines(b), width_offset, line)

\* ---------------------------------------------------------- render_succinct

\* Lines 48-53: the header row; None when Level::to_string panics.
render_header(m) ==
    IF level_to_string(m.level).some
    THEN Some(append(append(append(NewBuffer, 0, level_to_string(m.level).val,
                                   LevelStyle(m.level)),
                            0, <<":", " ">>, "HeaderMsg"),
                     0, m.primary_msg, "HeaderMsg"))
    ELSE None

\* for i in 0..len_of_max_line_num { buffer.prepend(line, " ", NoStyle) }
RECURSIVE prepend_spaces(_, _, _)
prepend_spaces(b, line, n) ==
    IF ~Ready(b) THEN b ELSE IF n = 0 THEN b
    ELSE prepend_spaces(prepend(b, line, <<" ">>, "NoStyle"), line, n - 1)

\* format!("{}:{}:{}", loc.file.name, loc.line, loc.col.0)
format_loc(loc) ==
    <<loc.file.name>> \o <<":">> \o to_string(loc.line) \o <<":">> \o to_string(loc.col)

\* Lines 76-87: the location row of the primary file, written at row off.
primary_location(b, m, off, d) ==
    prepend_spaces(
        append(prepend(b, off, <<"-", "-", ">", " ">>, "LineNumber"),
               off, format_loc(lookup_char_pos(m.primary_span.lo)), "LineAndColumn"),
        off, d)

\* secondary_location without the spacing row: "::: <file>" at row off.
secondary_location_unspaced(b, annotated_file, off, d) ==
    prepend_spaces(
        append(prepend(b, off, <<":", ":", ":", " ">>, "LineNumber"),
               off, <<annotated_file.file.name>>, "LineAndColumn"),
        off, d)

\* Lines 88-105: the spacing row and the location row of another file.
secondary_location(b, annotated_file, off, d) ==
    prepend_spaces(
        append(prepend(puts(b, off, d + 1, Gutter, "LineNumber"),
                       off + 1, <<":", ":", ":", " ">>, "LineNumber"),
               off + 1, <<annotated_file.file.name>>, "LineAndColumn"),
        off + 1, d)

\* Lines 107-112: the spacer between the location and the annotated source.
spacer(b, d) == puts(b, num_lines(b), d + 1, Gutter, "LineNumber")

\* The file rendered first taken for the file of the primary span.
render_location_first(b, m, annotated_file, d) ==
    IF num_lines(b) = 1
    THEN spacer(primary_location(b, m, num_lines(b), d), d)
    ELSE spacer(secondary_location(b, annotated_file, num_lines(b), d), d)

\* Lines 73-112: the location row of one file and the spacer after it.
render_location(b, m, annotated_file, d) ==
    IF lookup_char_pos(m.primary_span.lo).file.name = annotated_file.file.name
    THEN spacer(primary_location(b, m, num_lines(b), d), d)
    ELSE spacer(secondary_location(b, annotated_file, num_lines(b), d), d)

\* Lines 129-148: the one skipped line of a gap of two, written at row `row`.
skipped_line(b, annotated_file, line_idx, d, row) ==
    puts(puts(puts(b, row, 0,
                   to_string(annotated_file.lines[line_idx + 2].line_number - 1),
                   "LineNumber"),
              row, 1 + d, Gutter, "LineNumber"),
         row, 3 + d,
         unwrap_or(get_line(annotated_file.file,
                            annotated_file.lines[line_idx + 1].line_number), <<>>),
         "Quotation")

\* line_idx_delta of lines 124-125 (line_idx 0-based).
line_idx_delta(lines, line_idx) ==
    lines[line_idx + 2].line_number - lines[line_idx + 1].line_number

\* render_gap with the elision taken one line early: a gap of two is elided.
render_gap_early(b, annotated_file, line_idx, d) ==
    IF ~Ready(b) THEN b ELSE IF line_idx >= Len(annotated_file.lines) - 1 THEN b
    ELSE IF line_idx_delta(annotated_file.lines, line_idx) >= 2
         THEN puts(b, num_lines(b), 0, <<".", ".", ".">>, "LineNumber")
    ELSE b

\* Lines 121-150: what is written between line line_idx and the next one.
render_gap(b, annotated_file, line_idx, d) ==
    IF ~Ready(b) THEN b ELSE IF line_idx >= Len(annotated_file.lines) - 1 THEN b
    ELSE IF line_idx_delta(annotated_file.lines, line_idx) > 2
         THEN puts(b, num_lines(b), 0, <<".", ".", ".">>, "LineNumber")
    ELSE IF line_idx_delta(annotated_file.lines, line_idx) = 2
         THEN skipped_line(b, annotated_file, line_idx, d, num_lines(b))
    ELSE b

\* for line_idx in 0..annotated_file.lines.len(): the buffer, and for every
\* line the rows its block took: line_offset (its first row), end (the row
\* count after render_source_line) and after (the row count after the gap).
RECURSIVE render_lines(_, _, _, _, _)
RECURSIVE render_lines_gap(_, _, _, _, _, _)
RECURSIVE render_lines_next(_, _, _, _, _, _, _)
render_lines(b, annotated_file, line_idx, d, rows) ==
    IF ~Ready(b) THEN [buffer |-> b, rows |-> rows]
    ELSE IF line_idx >= Len(annotated_file.lines) THEN [buffer |-> b, rows |-> rows]
    ELSE render_lines_gap(
            render_source_line(b, annotated_file.file, annotated_file.lines[line_idx + 1],
                               3 + d),
            annotated_file, line_idx, d, rows, num_lines(b))

\* After render_source_line: the gap, with `end` the row count before it.
render_lines_gap(b, annotated_file, line_idx, d, rows, line_offset) ==
    IF ~Ready(b) THEN [buffer |-> b, rows |-> rows]
    ELSE render_lines_next(render_gap(b, annotated_file, line_idx, d),
                           annotated_file, line_idx, d, rows, line_offset, num_lines(b))

\* After the gap: the rows of this line are recorded and the loop goes on.
render_lines_next(b, annotated_file, line_idx, d, rows, line_offset, end) ==
    render_lines(b, annotated_file, line_idx + 1, d,
                 Append(rows, [line_number |-> annotated_file.lines[line_idx + 1].line_number,
                               line_offset |-> line_offset,
                               end |-> end,
                               after |-> num_lines(b)]))

\* The body of `for annotated_file in annotated_files`, lines 71-152.
render_file(b, m, annotated_file, d) ==
    render_lines(render_location(b, m, annotated_file, d), annotated_file, 0, d, <<>>)

\* One turn of `for note in &msg.notes`, written at row `row`.
note_row(b, text, d, row) ==
    append(append(puts(b, row, 1 + d, <<"=", ">", " ">>, "LineNumber"),
                  row, <<"n", "o", "t", "e", ":", " ">>, LevelStyle("Note")),
           row, text, "NoStyle")

\* for note in &msg.notes
RECURSIVE render_note_rows(_, _, _)
render_note_rows(b, notes, d) ==
    IF ~Ready(b) THEN b ELSE IF notes = <<>> THEN b
    ELSE render_note_rows(note_row(b, Head(notes), d, num_lines(b)), Tail(notes), d)

\* render_notes without the spacer before the notes.
render_notes_unspaced(b, m, d) == render_note_rows(b, m.notes, d)

\* Lines 154-169: the spacer and the notes.
render_notes(b, m, d) ==
    IF m.notes # <<>> THEN render_note_rows(spacer(b, d), m.notes, d)
    ELSE render_note_rows(b, m.notes, d)

\* Lines 71-152: the loop over the files, from the i-th file on.
RECURSIVE render_files(_, _, _, _, _)
render_files(b, m, files, i, d) ==
    IF ~Ready(b) THEN b ELSE IF i > Len(files) THEN b
    ELSE render_files(render_file(b, m, files[i], d).buffer, m, files, i + 1, d)

\* render_succinct from its first line to its return, for a message whose
\* level has a name; found is what binary_search_by gave at line 64.
render_succinct(m, found) ==
    LET d == Len(to_string(get_max_line_num(m)))
    IN render(render_notes(render_files(render_header(m).val, m,
                                        reorder(preprocess_annotations(m), found), 1, d),
                           m, d))

\* -------------------------------------------------------------------- emit
\* The calls emit (main.rs) makes on its Destination (destination.rs) are
\* kept as a sequence of events; each event carries the set of attributes
\* the terminal has active once the call has returned.

\* Level::color
level_color(lvl) ==
    CASE lvl \in {"Bug", "Fatal", "PhaseFatal", "Error"} -> "BRIGHT_RED"
      [] lvl = "Warning" -> "YELLOW"
      [] lvl = "Note" -> "BRIGHT_GREEN"
      [] lvl = "Help" -> "BRIGHT_CYAN"
      [] OTHER -> "unreachable"

\* The attributes Destination::apply_style starts for a style (destination.rs
\* spells the note styles OldSkoolNote and OldSkoolNoteText).
style_attrs(lvl, style) ==
    CASE style = "LineNumber" -> {"Bold", "BRIGHT_BLUE"}
      [] style = "OldSchoolNote" -> {"Bold", "BRIGHT_GREEN"}
      [] style \in {"OldSchoolNoteText", "HeaderMsg"} -> {"Bold"}
      [] style \in {"UnderlinePrimary", "LabelPrimary"} -> {"Bold", level_color(lvl)}
      [] style \in {"UnderlineSecondary", "LabelSecondary"} -> {"Bold", "BRIGHT_BLUE"}
      [] style = LevelStyle("Error") -> {"Bold", "BRIGHT_RED"}
      [] style = LevelStyle("Warning") -> {"Bold", "YELLOW"}
      [] OTHER -> {}

\* The attributes active after the last call.
active_attrs(events) ==
    IF events = <<>> THEN {} ELSE events[Len(events)].active

\* Destination::apply_style; start_attr does nothing on a Raw destination.
apply_style(dst, events, lvl, style) ==
    Append(events, [op |-> "apply_style", arg |-> style,
                    active |-> IF dst = "Terminal"
                               THEN active_attrs(events) \cup style_attrs(lvl, style)
                               ELSE active_attrs(events)])

\* write!(&mut dst, "{}", text)
write(events, text) ==
    Append(events, [op |-> "write", arg |-> text, active |-> active_attrs(events)])

\* Destination::reset_attrs; a reset that fails leaves the attributes as
\* they were.
reset_attrs(events, failed) ==
    Append(events, [op |-> "reset_attrs", arg |-> failed,
                    active |-> IF failed THEN active_attrs(events) ELSE {}])

\* The state of emit: the events so far, the resets called, and whether it
\* goes on (false once reset_attrs()? has returned the error).
NewSink == [events |-> <<>>, resets |-> 0, ok |-> TRUE]

\* emit_part without the reset: the style stays on after the fragment.
emit_part_unreset(dst, lvl, part, st, fail) ==
    [st EXCEPT !.events = write(apply_style(dst, st.events, lvl, part.style), part.text)]

\* Lines 68-70 of emit: one fragment.  fail is the number of the reset that
\* returns an error, 0 for none.
emit_part(dst, lvl, part, st, fail) ==
    [events |-> reset_attrs(write(apply_style(dst, st.events, lvl, part.style), part.text),
                            st.resets + 1 = fail),
     resets |-> st.resets + 1,
     ok |-> st.resets + 1 # fail]

\* Lines 67-71: the fragments of one row, from the i-th on.
RECURSIVE emit_parts(_, _, _, _, _, _)
emit_parts(dst, lvl, line, i, st, fail) ==
    IF ~st.ok THEN st ELSE IF i > Len(line) THEN st
    ELSE emit_parts(dst, lvl, line, i + 1, emit_part(dst, lvl, line[i], st, fail), fail)

\* Lines 67-72: one row and its newline.
emit_line(dst, lvl, line, st, fail) ==
    LET sent == emit_parts(dst, lvl, line, 1, st, fail)
    IN IF sent.ok THEN [sent EXCEPT !.events = write(@, <<"\n">>)] ELSE sent

\* Lines 66-73: the rows, from the i-th on.
RECURSIVE emit_lines(_, _, _, _, _, _)
emit_lines(dst, lvl, rows, i, st, fail) ==
    IF ~st.ok THEN st ELSE IF i > Len(rows) THEN st
    ELSE emit_lines(dst, lvl, rows, i + 1, emit_line(dst, lvl, rows[i], st, fail), fail)

\* emit(level, msg) on the destination dst.
emit(dst, lvl, rows, fail) == emit_lines(dst, lvl, rows, 1, NewSink, fail)

\* ------------------------------------------------------------------ inputs
\* Spans of the three files, and the label text a caller attaches to each.

SpanA1 == Span("a", 1, 0, 1, 3)    \* line 1, columns [0,3)
SpanB1 == Span("a", 1, 2, 1, 4)    \* line 1, columns [2,4): overlaps SpanA1
SpanC1 == Span("a", 1, 4, 1, 5)    \* line 1, columns [4,5): overlaps neither
SpanZ1 == Span("a", 1, 1, 1, 1)    \* line 1, empty at column 1
SpanA2 == Span("a", 2, 1, 2, 2)    \* line 2
SpanA4 == Span("a", 4, 0, 4, 2)    \* line 4
SpanM12 == Span("a", 1, 1, 2, 3)   \* line 1 column 1 to line 2 column 3
SpanM24 == Span("a", 2, 3, 4, 0)   \* line 2 column 3 to line 4 column 0
SpanB12 == Span("b", 12, 1, 12, 3) \* file b, line 12
SpanB9 == Span("b", 9, 0, 10, 2)   \* file b, line 9 to line 10
SpanF1 == Span("c", 1, 0, 1, 1)    \* file c, line 1
SpanF3 == Span("c", 3, 0, 3, 2)    \* file c, line 3: past the text of the file
SpanF5 == Span("c", 5, 1, 5, 2)    \* file c, line 5: two lines further
SpanT3 == Span("a", 3, 3, 3, 4)    \* file a, line 3, after the tab of the line
SpanU3 == Span("a", 3, 4, 3, 5)    \* file a, line 3, next to SpanT3

\* A call of span_label a caller may make: the span and the label.
E(span, label) == [span |-> span, label |-> label]

Setup(level, primary_span, error_code, palette) ==
    [level |-> level, primary_msg |-> <<"M">>, primary_span |-> primary_span,
     error_code |-> error_code, palette |-> palette]

E123 == Some(<<"E", "1", "2", "3">>)

Setups ==
    { \* one file, lines 1, 2 and 4: gaps of one, two and three lines
      Setup("Error", SpanA4, E123,
            {E(SpanA1, Some(<<"A">>)), E(SpanA2, None), E(SpanA4, Some(<<"C">>))}),
      \* three files, the primary span in each of them in turn
      Setup("Warning", SpanA1, E123,
            {E(SpanA1, Some(<<"A">>)), E(SpanB12, Some(<<"B">>)), E(SpanF1, None)}),
      Setup("Warning", SpanB12, None,
            {E(SpanA1, Some(<<"A">>)), E(SpanB12, None), E(SpanF1, Some(<<"C">>))}),
      Setup("Error", SpanF1, None,
            {E(SpanA1, None), E(SpanB12, Some(<<"B">>)), E(SpanF1, Some(<<"C">>))}),
      \* one line, overlapping and disjoint annotations, with and without label
      Setup("Error", SpanB1, None,
            {E(SpanA1, Some(<<"A", "A">>)), E(SpanA1, None), E(SpanB1, Some(<<"B">>)),
             E(SpanB1, None), E(SpanC1, Some(<<"C">>))}),
      Setup("Fatal", SpanA1, None,
            {E(SpanA1, Some(<<"A">>)), E(SpanZ1, Some(<<"Z">>)), E(SpanZ1, None),
             E(SpanC1, Some(<<"C", "C">>))}),
      \* spans that cross lines, and an empty span
      Setup("Error", SpanM12, None,
            {E(SpanM12, Some(<<"A">>)), E(SpanM12, None), E(SpanM24, Some(<<"B">>)),
             E(SpanZ1, Some(<<"Z">>))}),
      \* and a span in a line the codemap has no text for
      Setup("Note", SpanB9, E123,
            {E(SpanB9, Some(<<"A">>)), E(SpanA2, Some(<<"B">>)), E(SpanA4, None),
             E(SpanF3, None)}),
      \* two such lines, and one between them
      Setup("Warning", SpanF3, None, {E(SpanF3, Some(<<"A">>)), E(SpanF5, None)}),
      \* a secondary annotation that starts inside the primary one
      Setup("Error", SpanA1, None,
            {E(SpanA1, Some(<<"A">>)), E(SpanB1, None), E(SpanC1, None)}),
      \* a tab in the message and a tab in the source line
      [Setup("Note", SpanT3, None, {E(SpanT3, Some(<<"A">>)), E(SpanU3, Some(<<"B">>))})
          EXCEPT !.primary_msg = <<"\t", "M">>],
      \* no label in the file of the primary span
      Setup("Help", SpanA1, None, {E(SpanB12, Some(<<"B">>)), E(SpanF1, None)}),
      \* the levels left
      Setup("Bug", SpanA1, None, {E(SpanA1, Some(<<"A">>))}),
      Setup("PhaseFatal", SpanA1, None, {E(SpanA1, None)}),
      Setup("Cancelled", SpanA1, None, {E(SpanA1, Some(<<"A">>))}) }

NoteTexts == {<<"n">>, <<"m", "m">>}

\* Destination::from_stderr gives a terminal or the raw stderr.
Destinations == {"Terminal", "Raw"}

\* Which call of reset_attrs returns an error: none, or the second.
ResetFailures == {0, 2}

\* ----------------------------------------------------------- state machine

\* No call made yet on a StyledBuffer used on its own.
NoCall == [op |-> "none", line |-> 0, col |-> 0, string |-> <<>>, style |-> "NoStyle",
           before |-> NewBuffer, count |-> 0]

Init ==
    /\ input \in Setups
    /\ msg = NewMessage(input.level, input.primary_msg, input.primary_span, input.error_code)
    /\ pc = "build"
    /\ buffer = NewBuffer
    /\ annotated_files = <<>>
    /\ len_of_max_line_num = 0
    /\ file_idx = 0
    /\ layout = <<>>
    /\ files_end = 0
    /\ out = <<>>
    /\ libcore = "unseen"
    /\ first_out = None
    /\ sink = <<>>
    /\ call = NoCall

Calls == Len(msg.span_labels) + Len(msg.notes)

\* err.span_label(span, label)
CallSpanLabel ==
    /\ pc = "build"
    /\ Calls < MaxCalls
    /\ \E e \in input.palette : msg' = span_label(msg, e.span, e.label)
    /\ UNCHANGED <<call, input, pc, buffer, annotated_files, len_of_max_line_num, file_idx,
                   layout, files_end, out, libcore, first_out, sink>>

\* err.note(text)
CallNote ==
    /\ pc = "build"
    /\ Calls < MaxCalls
    /\ \E text \in NoteTexts : msg' = note(msg, text)
    /\ UNCHANGED <<call, input, pc, buffer, annotated_files, len_of_max_line_num, file_idx,
                   layout, files_end, out, libcore, first_out, sink>>

\* render_succinct, lines 44-53: the buffer and its header row.
RenderHeader ==
    /\ pc = "build"
    /\ LET h == render_header(msg)
       IN IF h.some
          THEN buffer' = h.val /\ pc' = "preprocess"
          ELSE buffer' = buffer /\ pc' = "panicked"
    /\ UNCHANGED <<call, input, msg, annotated_files, len_of_max_line_num, file_idx, layout,
                   files_end, out, libcore, first_out, sink>>

\* render_succinct, lines 55-61.
Preprocess ==
    /\ pc = "preprocess"
    /\ annotated_files' = preprocess_annotations(msg)
    /\ len_of_max_line_num' = Len(to_string(get_max_line_num(msg)))
    /\ pc' = "reorder"
    /\ UNCHANGED <<call, input, msg, buffer, file_idx, layout, files_end, out, libcore, first_out, sink>>

\* render_succinct, lines 63-68.
Reorder ==
    /\ pc = "reorder"
    /\ \E found \in binary_search_seen(libcore, annotated_files,
                                       lookup_char_pos(msg.primary_span.lo).file.name) :
          /\ annotated_files' = reorder(annotated_files, found)
          /\ libcore' = build_seen(libcore, annotated_files,
                                   lookup_char_pos(msg.primary_span.lo).file.name, found)
    /\ pc' = "files"
    /\ UNCHANGED <<call, input, msg, buffer, len_of_max_line_num, file_idx, layout, files_end, out,
                   first_out, sink>>

\* render_succinct, lines 71-152: one turn of the loop over the files.
RenderFile ==
    /\ pc = "files"
    /\ file_idx < Len(annotated_files)
    /\ LET annotated_file == annotated_files[file_idx + 1]
           r == render_file(buffer, msg, annotated_file, len_of_max_line_num)
       IN /\ buffer' = r.buffer
          /\ layout' = Append(layout, [file |-> annotated_file.file.name,
                                       first |-> num_lines(buffer),
                                       lines |-> r.rows])
    /\ file_idx' = file_idx + 1
    /\ UNCHANGED <<call, input, msg, pc, annotated_files, len_of_max_line_num, files_end, out, libcore,
                   first_out, sink>>

\* render_succinct, lines 154-169, once the loop over the files has ended.
RenderNotes ==
    /\ pc = "files"
    /\ file_idx = Len(annotated_files)
    /\ files_end' = num_lines(buffer)
    /\ buffer' = render_notes(buffer, msg, len_of_max_line_num)
    /\ pc' = "render"
    /\ UNCHANGED <<call, input, msg, annotated_files, len_of_max_line_num, file_idx, layout, out, libcore,
                   first_out, sink>>

\* render_succinct, line 172.
RenderFinish ==
    /\ pc = "render"
    /\ out' = render(buffer)
    /\ pc' = "done"
    /\ UNCHANGED <<call, input, msg, buffer, annotated_files, len_of_max_line_num, file_idx,
                   layout, files_end, libcore, first_out, sink>>

\* A second call of render_succinct on the message the first call rendered,
\* from its first line to its return, in the same run of the program; the
\* caller then has both results to compare.
RenderAgain ==
    /\ pc = "done"
    /\ first_out' = Some(out)
    /\ \E found \in binary_search_seen(libcore, preprocess_annotations(msg),
                                       lookup_char_pos(msg.primary_span.lo).file.name) :
          /\ out' = render_succinct(msg, found)
          /\ libcore' = build_seen(libcore, preprocess_annotations(msg),
                                   lookup_char_pos(msg.primary_span.lo).file.name, found)
    /\ pc' = "done_twice"
    /\ UNCHANGED <<call, input, msg, buffer, annotated_files, len_of_max_line_num, file_idx,
                   layout, files_end, sink>>

\* emit(level, msg) of main.rs on what render_succinct returned: the whole
\* function on one destination, with at most one reset that fails (a Raw
\* destination has no reset that can fail).
Emit ==
    /\ pc = "done"
    /\ \E dst \in Destinations, fail \in ResetFailures :
          /\ dst = "Raw" => fail = 0
          /\ LET st == emit(dst, msg.level, out, fail)
             IN sink' = st.events /\ pc' = IF st.ok THEN "emitted" ELSE "emit_failed"
    /\ UNCHANGED <<call, input, msg, buffer, annotated_files, len_of_max_line_num, file_idx,
                   layout, files_end, out, libcore, first_out>>

Next ==
    \/ CallSpanLabel
    \/ CallNote
    \/ RenderHeader
    \/ Preprocess
    \/ Reorder
    \/ RenderFile
    \/ RenderNotes
    \/ RenderFinish
    \/ RenderAgain
    \/ Emit

Spec == Init /\ [][Next]_vars

\* ------------------------------------------------- the StyledBuffer on its own
\* The methods of StyledBuffer called one after the other by a caller other
\* than render_succinct, on a buffer that is new or holds a header row with a
\* tab; `call` records the last call and the buffer it was made on.

MaxGridCalls == 2

GridLines == {0, 1}
GridCols == {0, 2}
GridChars == {"a", "\t"}
GridStyles == {"NoStyle", "Quotation"}
GridStrings == {<<"\t">>, <<"é", "b">>}

GridStarts == {NewBuffer, append(NewBuffer, 0, <<"a", "\t", "b">>, "HeaderMsg")}

GridInit ==
    /\ input = Setup("Note", SpanA1, None, {})
    /\ msg = NewMessage(input.level, input.primary_msg, input.primary_span, input.error_code)
    /\ pc = "grid"
    /\ buffer \in GridStarts
    /\ annotated_files = <<>>
    /\ len_of_max_line_num = 0
    /\ file_idx = 0
    /\ layout = <<>>
    /\ files_end = 0
    /\ out = <<>>
    /\ libcore = "unseen"
    /\ first_out = None
    /\ sink = <<>>
    /\ call = NoCall

Called(op, line, col, string, style) ==
    [op |-> op, line |-> line, col |-> col, string |-> string, style |-> style,
     before |-> buffer, count |-> call.count + 1]

GridFrame ==
    UNCHANGED <<input, msg, pc, annotated_files, len_of_max_line_num, file_idx, layout,
                files_end, out, libcore, first_out, sink>>

\* buffer.putc(line, col, chr, style)
GridPutc ==
    /\ pc = "grid"
    /\ call.count < MaxGridCalls
    /\ \E line \in GridLines, col \in GridCols, chr \in GridChars, style \in GridStyles :
          /\ buffer' = putc(buffer, line, col, chr, style)
          /\ call' = Called("putc", line, col, <<chr>>, style)
    /\ GridFrame

\* buffer.puts(line, col, string, style)
GridPuts ==
    /\ pc = "grid"
    /\ call.count < MaxGridCalls
    /\ \E line \in GridLines, col \in GridCols, string \in GridStrings :
          /\ buffer' = puts(buffer, line, col, string, "LineNumber")
          /\ call' = Called("puts", line, col, string, "LineNumber")
    /\ GridFrame

\* buffer.set_style(line, col, style)
GridSetStyle ==
    /\ pc = "grid"
    /\ call.count < MaxGridCalls
    /\ \E line \in GridLines, col \in GridCols, style \in GridStyles :
          /\ buffer' = set_style(buffer, line, col, style)
          /\ call' = Called("set_style", line, col, <<>>, style)
    /\ GridFrame

\* buffer.prepend(line, string, style)
GridPrepend ==
    /\ pc = "grid"
    /\ call.count < MaxGridCalls
    /\ \E line \in GridLines, string \in GridStrings :
          /\ buffer' = prepend(buffer, line, string, "LineNumber")
          /\ call' = Called("prepend", line, 0, string, "LineNumber")
    /\ GridFrame

\* buffer.append(line, string, style)
GridAppend ==
    /\ pc = "grid"
    /\ call.count < MaxGridCalls
    /\ \E line \in GridLines, string \in GridStrings :
          /\ buffer' = append(buffer, line, string, "LabelPrimary")
          /\ call' = Called("append", line, 0, string, "LabelPrimary")
    /\ GridFrame

\* buffer.render()
GridRender ==
    /\ pc = "grid"
    /\ out' = render(buffer)
    /\ pc' = "grid_rendered"
    /\ UNCHANGED <<call, input, msg, buffer, annotated_files, len_of_max_line_num, file_idx,
                   layout, files_end, libcore, first_out, sink>>

GridNext ==
    \/ GridPutc
    \/ GridPuts
    \/ GridSetStyle
    \/ GridPrepend
    \/ GridAppend
    \/ GridRender

GridSpec == GridInit /\ [][GridNext]_vars

\* ------------------------------------------------------------ observations
\* What the properties below read off a state.  Rows and columns are counted
\* from 0, as the code counts them.

Spaces(n) == [i \in 1..n |-> " "]

Row(r) == buffer.text[r + 1]
RowStyles(r) == buffer.styles[r + 1]

\* The file the primary span starts in.
PrimaryFile == lookup_char_pos(msg.primary_span.lo).file.name

\* The header row is written, and Level::to_string did not panic.
Started == pc \notin {"build", "panicked"}

\* render_succinct has returned: buffer holds the rows of its output.
Finished == pc = "done"

\* preprocess_annotations has run.
Preprocessed == pc \in {"reorder", "files", "render", "done"}

Range(s) == { s[i] : i \in 1..Len(s) }

\* The annotated lines kept for the file called name.
LinesOf(name) ==
    UNION { Range(af.lines) : af \in { x \in Range(annotated_files) : x.file.name = name } }

\* The annotations kept for line line_number of the file called name.
AnnotationsAt(name, line_number) ==
    UNION { Range(l.annotations) : l \in { x \in LinesOf(name) : x.line_number = line_number } }

AllAnnotations ==
    UNION { Range(l.annotations) : l \in UNION { Range(af.lines) : af \in Range(annotated_files) } }

\* ------------------------------------------------------------------ header

\* C8: when the diagnostic has error_code = Some(c), row 0 of the output reads
\* "<level>: <message> [<c>]": the code in brackets follows the message.
HeaderCarriesErrorCode ==
    (Started /\ msg.error_code.some) =>
        Row(0) = level_to_string(msg.level).val \o <<":", " ">> \o msg.primary_msg
                 \o <<" ", "[">> \o msg.error_code.val \o <<"]">>

\* -------------------------------------------------------------- preprocess

\* C5: every annotation preprocess_annotations produces has
\* start_col < end_col, and a label whose span has lo = hi yields an
\* annotation one column wide at lo.
ZeroWidthIsWidened ==
    Preprocessed =>
        /\ \A a \in AllAnnotations : a.start_col < a.end_col
        /\ \A i \in 1..Len(msg.span_labels) :
              msg.span_labels[i].span.lo = msg.span_labels[i].span.hi =>
                \E a \in AnnotationsAt(lookup_char_pos(msg.span_labels[i].span.lo).file.name,
                                        lookup_char_pos(msg.span_labels[i].span.lo).line) :
                    /\ a.start_col = lookup_char_pos(msg.span_labels[i].span.lo).col
                    /\ a.end_col = a.start_col + 1

\* C6: a label whose span starts and ends on different lines yields, on its
\* start line, an annotation with start_col = lo.col, end_col = lo.col + 1 and
\* is_minimized = true; a label whose span lies in one line yields one with
\* the columns (lo.col, hi.col) and is_minimized = false.
MultiLineIsMinimized ==
    Preprocessed =>
        \A i \in 1..Len(msg.span_labels) :
            \E a \in AnnotationsAt(lookup_char_pos(msg.span_labels[i].span.lo).file.name,
                                    lookup_char_pos(msg.span_labels[i].span.lo).line) :
                /\ a.start_col = lookup_char_pos(msg.span_labels[i].span.lo).col
                /\ a.label = msg.span_labels[i].label
                /\ a.is_primary = msg.span_labels[i].is_primary
                /\ IF lookup_char_pos(msg.span_labels[i].span.lo).line
                      # lookup_char_pos(msg.span_labels[i].span.hi).line
                   THEN a.end_col = a.start_col + 1 /\ a.is_minimized
                   ELSE /\ a.end_col = lookup_char_pos(msg.span_labels[i].span.hi).col
                        /\ ~a.is_minimized

\* ----------------------------------------------------------------- reorder

\* The reorder step has run.
Reordered == pc \in {"files", "render", "done"}

\* Some label starts in the file of the primary span.
PrimaryFileIsAnnotated ==
    \E i \in 1..Len(msg.span_labels) :
        lookup_char_pos(msg.span_labels[i].span.lo).file.name = PrimaryFile

\* C2: for any number of annotated files, if a label starts in the file of the
\* primary span then after the reorder step that file is at index 0 of
\* annotated_files and its block is the first file block of the output.
PrimaryFileComesFirst ==
    (Reordered /\ PrimaryFileIsAnnotated) =>
        /\ annotated_files[1].file.name = PrimaryFile
        /\ layout # <<>> => layout[1].file = PrimaryFile

\* C3: with annotations in exactly two files, the block of the file of the
\* primary span is rendered before the block of the other file, whichever of
\* the two the preprocessor saw first.
PrimaryFirstOfTwoFiles ==
    (Reordered /\ PrimaryFileIsAnnotated /\ Len(annotated_files) = 2) =>
        /\ annotated_files[1].file.name = PrimaryFile
        /\ annotated_files[2].file.name # PrimaryFile
        /\ \A k \in 1..Len(layout) : (layout[k].file = PrimaryFile) <=> (k = 1)

\* Two files were annotated, the preprocessor saw the file of the primary
\* span second, and both blocks are rendered.
TwoFilesSwapped ==
    /\ pc = "done"
    /\ Len(layout) = 2
    /\ preprocess_annotations(msg)[2].file.name = PrimaryFile
    /\ layout[1].file = PrimaryFile

\* ---------------------------------------------------------- location rows

\* A row holding only the gutter marker, after d + 1 spaces.
GutterRow(d) == Spaces(d + 1) \o Gutter

\* "--> <file>:<line>:<col>" for the place the primary span starts at, after d
\* spaces.
PrimaryLocationRow(d) ==
    Spaces(d) \o <<"-", "-", ">", " ">> \o <<PrimaryFile>> \o <<":">>
    \o to_string(lookup_char_pos(msg.primary_span.lo).line) \o <<":">>
    \o to_string(lookup_char_pos(msg.primary_span.lo).col)

\* "::: <file>" after d spaces.
SecondaryLocationRow(d, name) == Spaces(d) \o <<":", ":", ":", " ">> \o <<name>>

\* C9 as stated: in the finished output the block of the file of the primary span begins with the
\* row "--> <file>:<line>:<col>", the block of every other file begins with
\* the row "::: <file>", and in both cases the next row holds only "|>".
BlockBeginsWithLocation ==
    Finished =>
        \A k \in 1..Len(layout) :
            /\ Row(layout[k].first) =
                  IF layout[k].file = PrimaryFile
                  THEN PrimaryLocationRow(len_of_max_line_num)
                  ELSE SecondaryLocationRow(len_of_max_line_num, layout[k].file)
            /\ Row(layout[k].first + 1) = GutterRow(len_of_max_line_num)

\* C9 amended: in the finished output the block of the file of the primary span begins with the row
\* "--> <file>:<line>:<col>" and a row holding only "|>"; the block of every
\* other file begins with a spacing row holding only "|>", then the row
\* "::: <file>" with no line or column, then a row holding only "|>".
LocationRows ==
    Finished =>
        \A k \in 1..Len(layout) :
            IF layout[k].file = PrimaryFile
            THEN /\ Row(layout[k].first) = PrimaryLocationRow(len_of_max_line_num)
                 /\ Row(layout[k].first + 1) = GutterRow(len_of_max_line_num)
            ELSE /\ Row(layout[k].first) = GutterRow(len_of_max_line_num)
                 /\ Row(layout[k].first + 1) =
                       SecondaryLocationRow(len_of_max_line_num, layout[k].file)
                 /\ Row(layout[k].first + 2) = GutterRow(len_of_max_line_num)

\* A finished output with the block of the primary file and another block.
BothLocationRows ==
    /\ pc = "done"
    /\ \E k \in 1..Len(layout) : layout[k].file = PrimaryFile
    /\ \E k \in 1..Len(layout) : layout[k].file # PrimaryFile

\* ------------------------------------------------------------------- notes

\* The notes have been written.
NotesDone == pc \in {"render", "done"}

\* C10: with k >= 1 notes the output ends with exactly k + 1 rows after the
\* last file block: a row holding only "|>", then a row "=> note: <text>" per
\* note in the order the notes were added; with no note nothing follows the
\* last file block.
NotesFollowTheFiles ==
    NotesDone =>
        IF msg.notes = <<>> THEN num_lines(buffer) = files_end
        ELSE /\ num_lines(buffer) = files_end + Len(msg.notes) + 1
             /\ Row(files_end) = GutterRow(len_of_max_line_num)
             /\ \A j \in 1..Len(msg.notes) :
                   Row(files_end + j) =
                     Spaces(len_of_max_line_num + 1)
                     \o <<"=", ">", " ", "n", "o", "t", "e", ":", " ">> \o msg.notes[j]

\* A finished output with a file block and two different notes.
TwoNotesRendered ==
    /\ pc = "done"
    /\ layout # <<>>
    /\ Len(msg.notes) = 2
    /\ msg.notes[1] # msg.notes[2]

\* -------------------------------------------------------------------- gaps

\* The row of a line that is shown without annotations: its number from
\* column 0, the gutter marker at column d + 1 and its text from column d + 3.
\* The source text the renderer shows for a line: the text of the line, or
\* nothing where the file has no such line.
SourceString(f, line_number) ==
    IF get_line(f, line_number - 1).some THEN get_line(f, line_number - 1).val ELSE <<>>

ContextRow(d, line_number, text) ==
    to_string(line_number) \o Spaces(d + 1 - Len(to_string(line_number)))
    \o Gutter \o text

\* C1: in the finished output, for two annotated lines n < m of one file with no annotated line
\* between them, the block of m begins where the rows after the block of n
\* end, and between the two blocks there is exactly one row holding "..." if
\* m - n > 2, exactly one row with the number and the text of line n + 1 if
\* m - n = 2, and no row if m - n = 1.
GapElision ==
    Finished =>
        \A k \in 1..Len(layout) :
            \A i \in 1..(Len(layout[k].lines) - 1) :
                /\ layout[k].lines[i].line_number < layout[k].lines[i + 1].line_number
                /\ layout[k].lines[i + 1].line_offset = layout[k].lines[i].after
                /\ layout[k].lines[i].after - layout[k].lines[i].end =
                      IF layout[k].lines[i + 1].line_number
                           - layout[k].lines[i].line_number = 1
                      THEN 0 ELSE 1
                /\ layout[k].lines[i + 1].line_number - layout[k].lines[i].line_number > 2
                      => Row(layout[k].lines[i].end) = <<".", ".", ".">>
                /\ layout[k].lines[i + 1].line_number - layout[k].lines[i].line_number = 2
                      => Row(layout[k].lines[i].end) =
                           ContextRow(len_of_max_line_num,
                                      layout[k].lines[i].line_number + 1,
                                      SourceString(annotated_files[k].file,
                                                   layout[k].lines[i].line_number + 1))

\* A finished output with a block whose annotated lines are one line apart
\* and then two lines apart.
GapsOfOneAndTwo ==
    /\ pc = "done"
    /\ \E k \in 1..Len(layout) :
          /\ Len(layout[k].lines) = 3
          /\ layout[k].lines[2].line_number = layout[k].lines[1].line_number + 1
          /\ layout[k].lines[3].line_number = layout[k].lines[2].line_number + 2

\* ------------------------------------------------------------------- width

\* The largest line number a label's span reaches.
LargestLine ==
    CHOOSE n \in {0} \cup { lookup_char_pos(msg.span_labels[i].span.hi).line :
                               i \in 1..Len(msg.span_labels) } :
        \A i \in 1..Len(msg.span_labels) :
            lookup_char_pos(msg.span_labels[i].span.hi).line <= n

\* Its count of decimal digits.
GutterDigits == Len(to_string(LargestLine))

\* Every row that carries the gutter marker has it at column d + 1, every row
\* of a line block and every separator row carries it, and the source text of
\* a line block starts at column d + 3.
GutterAt(d) ==
    /\ \A r \in 0..(num_lines(buffer) - 1) :
          \A c \in 0..(Len(Row(r)) - 1) :
              (Row(r)[c + 1] = "|" /\ RowStyles(r)[c + 1] = "LineNumber")
                  => c = d + 1 /\ SubSeq(Row(r), c + 1, c + 2) = Gutter
    /\ \A k \in 1..Len(layout) :
          /\ SubSeq(Row(layout[k].lines[1].line_offset - 1), d + 2, d + 3) = Gutter
          /\ \A i \in 1..Len(layout[k].lines) :
                /\ \A r \in layout[k].lines[i].line_offset..(layout[k].lines[i].end - 1) :
                      SubSeq(Row(r), d + 2, d + 3) = Gutter
                /\ SubSeq(Row(layout[k].lines[i].line_offset), d + 4,
                          Len(Row(layout[k].lines[i].line_offset)))
                      = SourceString(annotated_files[k].file, layout[k].lines[i].line_number)
    /\ msg.notes # <<>> => SubSeq(Row(files_end), d + 2, d + 3) = Gutter

\* C4: in one finished output, every row that carries the gutter marker "|>"
\* has it at column d + 1, and source text starts at column d + 3, where d is
\* the count of digits of the largest line number of the labels of all files.
GutterAligned == (Finished /\ msg.span_labels # <<>>) => GutterAt(GutterDigits)

\* A finished output of two files, the largest line number with two digits
\* and a block of the other file with a line number of one digit.
TwoWidthsOneGutter ==
    /\ pc = "done"
    /\ GutterDigits = 2
    /\ Len(layout) = 2
    /\ \E k \in 1..Len(layout) :
          /\ layout[k].lines # <<>>
          /\ \A i \in 1..Len(layout[k].lines) : layout[k].lines[i].line_number < 10

\* ------------------------------------------------------------ inline label

LabelStyles == {"LabelPrimary", "LabelSecondary"}

\* The characters of row r written in a label style, from left to right.
LabelCells(r) ==
    LET at == SelectSeq([c \in 1..Len(Row(r)) |-> c],
                        LAMBDA c : RowStyles(r)[c] \in LabelStyles)
    IN [j \in 1..Len(at) |-> Row(r)[at[j]]]

\* Column x lies in [start_col, end_col) of annotation a.
InColumns(x, a) == a.start_col <= x /\ x < a.end_col

\* Two annotations overlap when the start_col of one lies in the columns of
\* the other.
Overlap(a1, a2) == InColumns(a1.start_col, a2) \/ InColumns(a2.start_col, a1)

\* a comes no later than b in (start_col, end_col) order.
ColumnOrder(a, b) ==
    \/ a.start_col < b.start_col
    \/ a.start_col = b.start_col /\ a.end_col <= b.end_col

\* The places in anns of the labeled annotations that are last in
\* (start_col, end_col) order.
LastLabeled(anns) ==
    { j \in 1..Len(anns) :
        /\ anns[j].label.some
        /\ \A j2 \in 1..Len(anns) : anns[j2].label.some => ColumnOrder(anns[j2], anns[j]) }

\* No other annotation of the line overlaps the one at place j.
Free(anns, j) == \A j2 \in (1..Len(anns)) \ {j} : ~Overlap(anns[j2], anns[j])

\* The label of a stands, in a label style, in a row below the underline row
\* of the line block lr, from the column of a.start_col.
StackedAt(lr, d, a) ==
    \E r \in (lr.line_offset + 2)..(lr.end - 1) :
        /\ Len(Row(r)) >= d + 3 + a.start_col + Len(a.label.val)
        /\ SubSeq(Row(r), d + 3 + a.start_col + 1, d + 3 + a.start_col + Len(a.label.val))
              = a.label.val
        /\ \A c \in (d + 3 + a.start_col + 1)..(d + 3 + a.start_col + Len(a.label.val)) :
              RowStyles(r)[c] \in LabelStyles

\* C7: in the finished output, the label of the last labeled annotation of a
\* line, in (start_col, end_col) order, is written on the underline row if
\* and only if no other annotation of the line, labeled or not, overlaps it;
\* otherwise it stands in a stacked row below; no other label is written on
\* the underline row.
InlineLabelRule ==
    Finished =>
        \A k \in 1..Len(layout) :
            \A i \in 1..Len(layout[k].lines) :
                IF \E j \in LastLabeled(annotated_files[k].lines[i].annotations) :
                       Free(annotated_files[k].lines[i].annotations, j)
                THEN \E j \in LastLabeled(annotated_files[k].lines[i].annotations) :
                        /\ Free(annotated_files[k].lines[i].annotations, j)
                        /\ LabelCells(layout[k].lines[i].line_offset + 1) =
                              <<" ">> \o annotated_files[k].lines[i].annotations[j].label.val
                ELSE /\ LabelCells(layout[k].lines[i].line_offset + 1) = <<>>
                     /\ \A j \in LastLabeled(annotated_files[k].lines[i].annotations) :
                           StackedAt(layout[k].lines[i], len_of_max_line_num,
                                     annotated_files[k].lines[i].annotations[j])

\* A finished output with a line that has an unlabeled annotation A and,
\* starting inside A, the labeled annotation B: the label of B is not on the
\* underline row but in a stacked row.
OverlappedLabelIsStacked ==
    /\ pc = "done"
    /\ \E k \in 1..Len(layout) :
          \E i \in 1..Len(layout[k].lines) :
              \E j \in LastLabeled(annotated_files[k].lines[i].annotations) :
                  /\ \E j2 \in 1..Len(annotated_files[k].lines[i].annotations) :
                        /\ ~annotated_files[k].lines[i].annotations[j2].label.some
                        /\ annotated_files[k].lines[i].annotations[j2].start_col
                             < annotated_files[k].lines[i].annotations[j].start_col
                        /\ InColumns(annotated_files[k].lines[i].annotations[j].start_col,
                                     annotated_files[k].lines[i].annotations[j2])
                  /\ LabelCells(layout[k].lines[i].line_offset + 1) = <<>>
                  /\ StackedAt(layout[k].lines[i], len_of_max_line_num,
                               annotated_files[k].lines[i].annotations[j])

\* ------------------------------------------------------------- determinism

RenderingIsTotal == pc # "panicked"

\* ------------------------------------------------------------------- sink

Newline == <<"\n">>

IsNewline(e) == e.op = "write" /\ e.arg = Newline

IsFragment(e) == e.op = "write" /\ e.arg # Newline

RECURSIVE FragmentCount(_, _)
FragmentCount(rows, i) ==
    IF i > Len(rows) THEN 0 ELSE Len(rows[i]) + FragmentCount(rows, i + 1)

\* C13: emit sends, for every fragment, apply style, then the fragment's
\* text, then reset; the newline of a row comes only after the reset of the
\* row's last fragment, and no attribute is active when it is written.  An
\* emit that has returned Ok has sent every fragment and every newline.
SinkOrdering ==
    /\ \A i \in 1..Len(sink) :
          /\ sink[i].op = "apply_style" =>
                i < Len(sink) /\ IsFragment(sink[i + 1])
          /\ IsFragment(sink[i]) =>
                /\ i > 1 /\ sink[i - 1].op = "apply_style"
                /\ i < Len(sink) /\ sink[i + 1].op = "reset_attrs"
          /\ sink[i].op = "reset_attrs" => i > 1 /\ IsFragment(sink[i - 1])
          /\ IsNewline(sink[i]) =>
                /\ sink[i].active = {}
                /\ i > 1 => \/ sink[i - 1].op = "reset_attrs" /\ ~sink[i - 1].arg
                            \/ IsNewline(sink[i - 1])
    /\ pc = "emitted" =>
          /\ Len(sink) = 3 * FragmentCount(out, 1) + Len(out)
          /\ Cardinality({i \in 1..Len(sink) : IsNewline(sink[i])}) = Len(out)

\* emit has returned Ok on a terminal, and a row ended with a fragment that
\* was written with attributes on.
StyledRowEmitted ==
    /\ pc = "emitted"
    /\ \E i \in 3..Len(sink) :
          /\ IsNewline(sink[i])
          /\ IsFragment(sink[i - 2])
          /\ sink[i - 2].active # {}

\* ----------------------------------------------------------------- builder

\* C14: span_label appends exactly one SpanLabel at the end of span_labels,
\* flagged primary exactly if its span is the primary span, and note appends
\* exactly one note at the end of notes; neither touches the entries before
\* it, the other list, level, primary_span, primary_msg or error_code, and
\* nothing else changes the message.
AppendOnlyBuilder ==
    [][msg' # msg =>
         /\ pc = "build"
         /\ msg'.level = msg.level
         /\ msg'.primary_span = msg.primary_span
         /\ msg'.primary_msg = msg.primary_msg
         /\ msg'.error_code = msg.error_code
         /\ \/ /\ msg'.notes = msg.notes
               /\ Len(msg'.span_labels) = Len(msg.span_labels) + 1
               /\ SubSeq(msg'.span_labels, 1, Len(msg.span_labels)) = msg.span_labels
               /\ LET sl == msg'.span_labels[Len(msg'.span_labels)]
                  IN /\ [span |-> sl.span, label |-> sl.label] \in input.palette
                     /\ sl.is_primary = (sl.span = msg.primary_span)
            \/ /\ msg'.span_labels = msg.span_labels
               /\ Len(msg'.notes) = Len(msg.notes) + 1
               /\ SubSeq(msg'.notes, 1, Len(msg.notes)) = msg.notes
               /\ msg'.notes[Len(msg'.notes)] \in NoteTexts]_vars

\* A message with a note and two labels added with the primary span, both
\* flagged primary.
TwoPrimaryLabels ==
    /\ msg.notes # <<>>
    /\ Len(msg.span_labels) = 2
    /\ \A i \in 1..2 : /\ msg.span_labels[i].span = msg.primary_span
                        /\ msg.span_labels[i].is_primary
    /\ msg.span_labels[1].label # msg.span_labels[2].label

\* ----------------------------------------------------------- stacked labels

\* The character at row r, column c of the buffer (both 0-based), "" where
\* the buffer has no cell.
Cell(r, c) ==
    IF r < num_lines(buffer) /\ c < Len(Row(r)) THEN Row(r)[c + 1] ELSE ""

\* Row r holds text from column c on, in a label style.
LabelAt(r, c, text) ==
    /\ r < num_lines(buffer)
    /\ Len(Row(r)) >= c + Len(text)
    /\ SubSeq(Row(r), c + 1, c + Len(text)) = text
    /\ \A x \in (c + 1)..(c + Len(text)) : RowStyles(r)[x] \in LabelStyles

\* The labeled annotations of a line that are not placed inline, in the
\* order of the sort: place k + 1 holds the annotation indexed k.
StackedOf(anns) ==
    IF labeled_of(anns) # <<>> /\ (\E j \in LastLabeled(anns) : Free(anns, j))
    THEN SubSeq(labeled_of(sort_annotations(anns)), 1, Len(labeled_of(anns)) - 1)
    ELSE labeled_of(sort_annotations(anns))

\* The row of the label of the stacked annotation indexed k of m, in the
\* line block whose source row is r.
LabelRow(r, m, k) == r + 3 + (m - k - 1)

\* The line block lr has m + 3 rows (2 when m = 0) and the label of each of
\* its m stacked annotations st on its row, from the annotation's start_col.
BlockRowsAndLabels(lr, st) ==
    /\ lr.end - lr.line_offset = IF st = <<>> THEN 2 ELSE Len(st) + 3
    /\ \A k \in 0..(Len(st) - 1) :
          LabelAt(LabelRow(lr.line_offset, Len(st), k),
                  len_of_max_line_num + 3 + st[k + 1].start_col, st[k + 1].label.val)
    /\ \A k1, k2 \in 0..(Len(st) - 1) :
          k1 # k2 => LabelRow(lr.line_offset, Len(st), k1) # LabelRow(lr.line_offset, Len(st), k2)

\* C15, as stated: in the finished output the stacked annotation indexed k
\* of the m of a line has a connector "|" at its start_col in each of the
\* m - k rows r + 2 .. r + 1 + (m - k), and its label from its start_col on
\* row r + 3 + (m - k - 1); the label rows are pairwise distinct and the
\* line block has m + 3 rows when m >= 1 and 2 rows when m = 0.
StackedGeometry ==
    Finished =>
        \A f \in 1..Len(layout) :
            \A i \in 1..Len(layout[f].lines) :
                LET lr == layout[f].lines[i]
                    st == StackedOf(annotated_files[f].lines[i].annotations)
                IN /\ BlockRowsAndLabels(lr, st)
                   /\ \A k \in 0..(Len(st) - 1) :
                         \A q \in (lr.line_offset + 2)..(lr.line_offset + 1 + (Len(st) - k)) :
                             Cell(q, len_of_max_line_num + 3 + st[k + 1].start_col) = "|"

\* The stacked annotations after the one indexed k that start at its column
\* and have their label on row q.
LabelsOver(r, st, k, q) ==
    { k2 \in (k + 1)..(Len(st) - 1) :
        /\ st[k2 + 1].start_col = st[k + 1].start_col
        /\ st[k2 + 1].label.val # <<>>
        /\ LabelRow(r, Len(st), k2) = q }

\* C15, amended: as above, but where a later stacked annotation starts at the
\* same column, its label is written over the connector on its label row,
\* and the cell holds the first character of that label.
StackedGeometryOverwritten ==
    Finished =>
        \A f \in 1..Len(layout) :
            \A i \in 1..Len(layout[f].lines) :
                LET lr == layout[f].lines[i]
                    st == StackedOf(annotated_files[f].lines[i].annotations)
                IN /\ BlockRowsAndLabels(lr, st)
                   /\ \A k \in 0..(Len(st) - 1) :
                         \A q \in (lr.line_offset + 2)..(lr.line_offset + 1 + (Len(st) - k)) :
                             IF LabelsOver(lr.line_offset, st, k, q) = {}
                             THEN Cell(q, len_of_max_line_num + 3 + st[k + 1].start_col) = "|"
                             ELSE \E k2 \in LabelsOver(lr.line_offset, st, k, q) :
                                     Cell(q, len_of_max_line_num + 3 + st[k + 1].start_col)
                                        = st[k2 + 1].label.val[1]

\* A finished output with a line that has two stacked annotations starting
\* at different columns, and one with a line that has none.
TwoLabelsStacked ==
    /\ pc = "done"
    /\ \E f \in 1..Len(layout) :
          \E i \in 1..Len(layout[f].lines) :
              LET st == StackedOf(annotated_files[f].lines[i].annotations)
              IN /\ Len(st) = 2
                 /\ st[1].start_col < st[2].start_col
                 /\ layout[f].lines[i].end - layout[f].lines[i].line_offset = 5

\* ------------------------------------------------------------ stacking order

\* The rows of the line block lr below its underline row.
StackRows(lr) == (lr.line_offset + 2)..(lr.end - 1)

\* C16, as stated: of two stacked annotations of a line, the one processed
\* later has its label on a row with a greater index than the label row of
\* the one processed earlier.
StackingOrderBelow ==
    Finished =>
        \A f \in 1..Len(layout) :
            \A i \in 1..Len(layout[f].lines) :
                LET lr == layout[f].lines[i]
                    st == StackedOf(annotated_files[f].lines[i].annotations)
                IN \A k1, k2 \in 1..Len(st) :
                      k1 < k2 =>
                        \E r1, r2 \in StackRows(lr) :
                            /\ r1 < r2
                            /\ LabelAt(r1, len_of_max_line_num + 3 + st[k1].start_col,
                                       st[k1].label.val)
                            /\ LabelAt(r2, len_of_max_line_num + 3 + st[k2].start_col,
                                       st[k2].label.val)

\* The label of a1, written from a1.start_col, shows the label of a2 from
\* a2.start_col.
Shows(a1, a2) ==
    /\ a1.start_col <= a2.start_col
    /\ a2.start_col + Len(a2.label.val) <= a1.start_col + Len(a1.label.val)
    /\ SubSeq(a1.label.val, a2.start_col - a1.start_col + 1,
              a2.start_col - a1.start_col + Len(a2.label.val)) = a2.label.val

\* C16, amended: the stacked annotation processed first has its label on the
\* last row of the line block and each one processed later has its label one
\* row higher, so a later annotation's label row has a smaller index than
\* the label row of every earlier one, and its label is not on that row.
StackingOrderAbove ==
    Finished =>
        \A f \in 1..Len(layout) :
            \A i \in 1..Len(layout[f].lines) :
                LET lr == layout[f].lines[i]
                    st == StackedOf(annotated_files[f].lines[i].annotations)
                IN /\ \A k \in 1..Len(st) :
                         LabelAt(lr.end - k, len_of_max_line_num + 3 + st[k].start_col,
                                 st[k].label.val)
                   /\ \A k1, k2 \in 1..Len(st) :
                         (k1 < k2 /\ ~Shows(st[k1], st[k2])) =>
                             ~LabelAt(lr.end - k1,
                                      len_of_max_line_num + 3 + st[k2].start_col,
                                      st[k2].label.val)

\* A finished output with a line whose two stacked annotations have
\* different labels: the label of the second is on the first stacked label
\* row, the label of the first on the row below it.
LaterLabelAbove ==
    /\ pc = "done"
    /\ \E f \in 1..Len(layout) :
          \E i \in 1..Len(layout[f].lines) :
              LET lr == layout[f].lines[i]
                  st == StackedOf(annotated_files[f].lines[i].annotations)
              IN /\ Len(st) = 2
                 /\ st[1].label # st[2].label
                 /\ LabelAt(lr.line_offset + 3, len_of_max_line_num + 3 + st[2].start_col,
                            st[2].label.val)
                 /\ LabelAt(lr.line_offset + 4, len_of_max_line_num + 3 + st[1].start_col,
                            st[1].label.val)

\* ------------------------------------------------------------ underline row

UnderlineStyles == {"UnderlinePrimary", "UnderlineSecondary"}

\* The style at row r, column c of the buffer (both 0-based), "" where the
\* buffer has no cell.
StyleAt(r, c) ==
    IF r < num_lines(buffer) /\ c < Len(Row(r)) THEN RowStyles(r)[c + 1] ELSE ""

\* The marker of annotation a and its style.
MarkerOf(a) == IF a.is_primary THEN "^" ELSE "-"

MarkerStyleOf(a) == IF a.is_primary THEN "UnderlinePrimary" ELSE "UnderlineSecondary"

\* The places in anns of the annotations whose columns hold p.
Covering(anns, p) == { j \in 1..Len(anns) : InColumns(p, anns[j]) }

\* The last place of a non-empty set of places.
LastOf(places) == CHOOSE j \in places : \A j2 \in places : j2 <= j

\* No column of the underline row r right of the gutter (from column w on)
\* that no annotation covers holds a marker.
NoMarkerElsewhere(r, w, anns) ==
    \A c \in w..(Len(Row(r)) - 1) :
        Covering(anns, c - w) = {} => StyleAt(r, c) \notin UnderlineStyles

\* C17, as stated: for every annotation of a line and every column p in
\* [start_col, end_col) the cell of the underline row at text offset + p
\* holds the marker of that annotation, "^" in UnderlinePrimary if it is
\* primary and "-" in UnderlineSecondary otherwise; columns no annotation
\* covers hold no marker.
UnderlinePerAnnotation ==
    Finished =>
        \A f \in 1..Len(layout) :
            \A i \in 1..Len(layout[f].lines) :
                LET r == layout[f].lines[i].line_offset + 1
                    w == len_of_max_line_num + 3
                    anns == annotated_files[f].lines[i].annotations
                IN /\ \A j \in 1..Len(anns) :
                         \A p \in anns[j].start_col..(anns[j].end_col - 1) :
                             /\ Cell(r, w + p) = MarkerOf(anns[j])
                             /\ StyleAt(r, w + p) = MarkerStyleOf(anns[j])
                   /\ NoMarkerElsewhere(r, w, anns)

\* C17, amended: every column p that some annotation of the line covers
\* holds a marker on the underline row, that of the annotation covering p
\* that is last in the order of the sort; columns no annotation covers hold
\* no marker.
UnderlineLastWins ==
    Finished =>
        \A f \in 1..Len(layout) :
            \A i \in 1..Len(layout[f].lines) :
                LET r == layout[f].lines[i].line_offset + 1
                    w == len_of_max_line_num + 3
                    anns == sort_annotations(annotated_files[f].lines[i].annotations)
                IN /\ \A j \in 1..Len(anns) :
                         \A p \in anns[j].start_col..(anns[j].end_col - 1) :
                             /\ Cell(r, w + p) = MarkerOf(anns[LastOf(Covering(anns, p))])
                             /\ StyleAt(r, w + p)
                                   = MarkerStyleOf(anns[LastOf(Covering(anns, p))])
                   /\ NoMarkerElsewhere(r, w, anns)

\* A finished output with a line on which a primary and a secondary
\* annotation share a column, and the column holds the marker of the later.
OverlappingUnderlines ==
    /\ pc = "done"
    /\ \E f \in 1..Len(layout) :
          \E i \in 1..Len(layout[f].lines) :
              LET r == layout[f].lines[i].line_offset + 1
                  w == len_of_max_line_num + 3
                  anns == sort_annotations(annotated_files[f].lines[i].annotations)
              IN \E j1, j2 \in 1..Len(anns) :
                    /\ j1 < j2
                    /\ anns[j1].is_primary # anns[j2].is_primary
                    /\ InColumns(anns[j2].start_col, anns[j1])
                    /\ Cell(r, w + anns[j2].start_col) = MarkerOf(anns[j2])
                    /\ Cell(r, w + anns[j1].start_col) = MarkerOf(anns[j1])

\* ------------------------------------------------------------- source row

\* The places in anns of the annotations that cover p and are not minimized.
Restyling(anns, p) == { j \in Covering(anns, p) : ~anns[j].is_minimized }

\* C18: after the underline pass the source row holds the gutter and the
\* text of the line, unchanged and of unchanged length; a text cell has the
\* style Quotation unless an annotation that is not minimized covers it, and
\* then the underline style of such an annotation (the last in the order of
\* the sort); a column the text does not reach gets no cell.
SourceRestyle ==
    Finished =>
        \A f \in 1..Len(layout) :
            \A i \in 1..Len(layout[f].lines) :
                LET r == layout[f].lines[i].line_offset
                    w == len_of_max_line_num + 3
                    anns == sort_annotations(annotated_files[f].lines[i].annotations)
                    text == unwrap_or(get_line(annotated_files[f].file,
                                               layout[f].lines[i].line_number - 1), <<>>)
                IN /\ Len(Row(r)) = w + Len(text)
                   /\ SubSeq(Row(r), w + 1, w + Len(text)) = text
                   /\ SubSeq(Row(r), w - 1, w) = Gutter
                   /\ \A p \in 0..(Len(text) - 1) :
                         StyleAt(r, w + p) =
                            IF Restyling(anns, p) = {} THEN "Quotation"
                            ELSE MarkerStyleOf(anns[LastOf(Restyling(anns, p))])

\* A finished output with a minimized annotation over a text cell that kept
\* Quotation, an annotation that is not minimized over a restyled text
\* cell, and an annotation over columns of a line that has no text.
RestyledAndKept ==
    /\ pc = "done"
    /\ \E a \in AllAnnotations :
          /\ a.is_minimized
          /\ a.start_col < a.end_col
    /\ \E f \in 1..Len(layout) :
          \E i \in 1..Len(layout[f].lines) :
              /\ StyleAt(layout[f].lines[i].line_offset, len_of_max_line_num + 3
                            + annotated_files[f].lines[i].annotations[1].start_col)
                    \in UnderlineStyles
    /\ \E f \in 1..Len(layout) :
          \E i \in 1..Len(layout[f].lines) :
              /\ Len(Row(layout[f].lines[i].line_offset)) = len_of_max_line_num + 3
              /\ annotated_files[f].lines[i].annotations[1].start_col
                    < annotated_files[f].lines[i].annotations[1].end_col

\* -------------------------------------------------------------- file order

\* The place in span_labels of the first label whose span starts in the file
\* called name.
FirstSeen(name) ==
    CHOOSE i \in 1..Len(msg.span_labels) :
        /\ lookup_char_pos(msg.span_labels[i].span.lo).file.name = name
        /\ \A j \in 1..(i - 1) :
              lookup_char_pos(msg.span_labels[j].span.lo).file.name # name

\* C19: of two file blocks of the finished output that are not the block of
\* the primary file, the one whose file got its first label earlier comes
\* first.
SecondaryFilesInFirstSeenOrder ==
    Finished =>
        \A k1, k2 \in 1..Len(layout) :
            (/\ k1 < k2
             /\ layout[k1].file # PrimaryFile
             /\ layout[k2].file # PrimaryFile)
                => FirstSeen(layout[k1].file) < FirstSeen(layout[k2].file)

\* ----------------------------------------------------------------- grouping

\* The span labels whose span starts in line line_number of the file called
\* name, in the order they were added.
LabelsAt(name, line_number) ==
    SelectSeq(msg.span_labels,
              LAMBDA sl : /\ lookup_char_pos(sl.span.lo).file.name = name
                          /\ lookup_char_pos(sl.span.lo).line = line_number)

\* The annotations kept in the lines of one file, counted.
RECURSIVE AnnotationsIn(_, _)
AnnotationsIn(lines, i) ==
    IF i > Len(lines) THEN 0 ELSE Len(lines[i].annotations) + AnnotationsIn(lines, i + 1)

\* The annotations kept in all files from the k-th on, counted.
RECURSIVE AnnotationsFrom(_)
AnnotationsFrom(k) ==
    IF k > Len(annotated_files) THEN 0
    ELSE AnnotationsIn(annotated_files[k].lines, 1) + AnnotationsFrom(k + 1)

\* C20: once preprocess_annotations has run, each file name has exactly one
\* entry, the lines of an entry are in strictly ascending line_number order
\* (so each line_number has one Line), every Line holds at least one
\* annotation, there are as many annotations as span labels, and a Line
\* holds, in the order they were added, the annotations of the labels whose
\* span starts in that line of that file.
GroupingInvariant ==
    Preprocessed =>
        /\ \A k1, k2 \in 1..Len(annotated_files) :
              k1 # k2 => annotated_files[k1].file.name # annotated_files[k2].file.name
        /\ \A k \in 1..Len(annotated_files) :
              /\ annotated_files[k].lines # <<>>
              /\ \A i \in 1..(Len(annotated_files[k].lines) - 1) :
                    annotated_files[k].lines[i].line_number
                       < annotated_files[k].lines[i + 1].line_number
              /\ \A i \in 1..Len(annotated_files[k].lines) :
                    LET anns == annotated_files[k].lines[i].annotations
                        labels == LabelsAt(annotated_files[k].file.name,
                                           annotated_files[k].lines[i].line_number)
                    IN /\ anns # <<>>
                       /\ Len(anns) = Len(labels)
                       /\ \A j \in 1..Len(anns) :
                             /\ anns[j].label = labels[j].label
                             /\ anns[j].is_primary = labels[j].is_primary
                             /\ anns[j].start_col = lookup_char_pos(labels[j].span.lo).col
        /\ AnnotationsFrom(1) = Len(msg.span_labels)

\* preprocess_annotations has run on labels in two files, one of which got
\* a label in a later line before a label in an earlier line.
GroupedOutOfOrder ==
    /\ pc = "reorder"
    /\ Len(annotated_files) = 2
    /\ \E i1, i2 \in 1..Len(msg.span_labels) :
          /\ i1 < i2
          /\ lookup_char_pos(msg.span_labels[i1].span.lo).file
                = lookup_char_pos(msg.span_labels[i2].span.lo).file
          /\ lookup_char_pos(msg.span_labels[i1].span.lo).line
                > lookup_char_pos(msg.span_labels[i2].span.lo).line

\* ----------------------------------------------------------------- putc

\* The buffer the last call was made on, and what it holds.
Before == call.before

OldRows == Len(Before.text)

\* The length row r had before the last call (0 for a row that was not there).
OldLen(r) == IF r < OldRows THEN Len(Before.text[r + 1]) ELSE 0

\* Row r is as it was before the last call, or empty if it was not there.
RowKept(r) ==
    IF r < OldRows
    THEN Row(r) = Before.text[r + 1] /\ RowStyles(r) = Before.styles[r + 1]
    ELSE Row(r) = <<>> /\ RowStyles(r) = <<>>

\* Cell c of row r is as it was before the last call.
CellKept(r, c) ==
    /\ Row(r)[c + 1] = Before.text[r + 1][c + 1]
    /\ RowStyles(r)[c + 1] = Before.styles[r + 1][c + 1]

\* Row 0 had a tab at column i before the last call.
TabAbove(i) == OldRows > 0 /\ i < Len(Before.text[1]) /\ Before.text[1][i + 1] = "\t"

\* C21: after putc(line, col, ch, style) the row count is max(old count,
\* line + 1), every row other than `line` is as before or, if new, empty; if
\* col was below the row's length only the cell (line, col) changes, otherwise
\* the row's length is col + 1 and each new cell at a column i < col is
\* (tab if row 0 had a tab at column i, else space) with NoStyle; the cell
\* (line, col) holds (ch, style).
PutcEffect ==
    call.op = "putc" =>
        /\ num_lines(buffer) = IF OldRows > call.line + 1 THEN OldRows ELSE call.line + 1
        /\ \A r \in 0..(num_lines(buffer) - 1) : r # call.line => RowKept(r)
        /\ Len(RowStyles(call.line)) = Len(Row(call.line))
        /\ Len(Row(call.line)) =
              IF call.col < OldLen(call.line) THEN OldLen(call.line) ELSE call.col + 1
        /\ \A i \in 0..(OldLen(call.line) - 1) : i # call.col => CellKept(call.line, i)
        /\ \A i \in OldLen(call.line)..(call.col - 1) :
              /\ Row(call.line)[i + 1] = IF TabAbove(i) THEN "\t" ELSE " "
              /\ RowStyles(call.line)[i + 1] = "NoStyle"
        /\ Row(call.line)[call.col + 1] = call.string[1]
        /\ RowStyles(call.line)[call.col + 1] = call.style

\* putc has written past the end of a new row under a header row with a tab:
\* the new row is padded with a space and a tab.
PutcPadsUnderTab ==
    /\ call.op = "putc"
    /\ call.line = 1 /\ call.col = 2
    /\ OldRows = 1
    /\ TabAbove(1) /\ ~TabAbove(0)
    /\ SubSeq(Row(1), 1, 2) = <<" ", "\t">>

\* -------------------------------------------------------------- prepend

\* C22: prepend(line, s, style) makes the row longer by the number of
\* characters of s, puts the characters of s with the style in cells
\* 0..len(s)-1, and moves every cell that was at column c to column
\* c + len(s) with its character and style, whatever the characters of s.
PrependEffect ==
    call.op = "prepend" =>
        /\ Len(Row(call.line)) = OldLen(call.line) + Len(call.string)
        /\ Len(RowStyles(call.line)) = Len(Row(call.line))
        /\ \A i \in 0..(Len(call.string) - 1) :
              /\ Row(call.line)[i + 1] = call.string[i + 1]
              /\ RowStyles(call.line)[i + 1] = call.style
        /\ \A c \in 0..(OldLen(call.line) - 1) :
              /\ Row(call.line)[c + Len(call.string) + 1] = Before.text[call.line + 1][c + 1]
              /\ RowStyles(call.line)[c + Len(call.string) + 1]
                    = Before.styles[call.line + 1][c + 1]

\* --------------------------------------------------------------- render

\* The texts of the fragments i.. of one rendered row, one after the other.
RECURSIVE FragmentText(_, _)
FragmentText(frags, i) ==
    IF i > Len(frags) THEN <<>> ELSE frags[i].text \o FragmentText(frags, i + 1)

\* The style of every character of the fragments i.. of one rendered row.
RECURSIVE FragmentStyles(_, _)
FragmentStyles(frags, i) ==
    IF i > Len(frags) THEN <<>>
    ELSE [c \in 1..Len(frags[i].text) |-> frags[i].style] \o FragmentStyles(frags, i + 1)

\* C23: render gives one fragment list per row, in row order; the texts of a
\* row's fragments put together are the row's characters, every character has
\* its fragment's style, no fragment is empty and two fragments next to each
\* other differ in style; an empty row gives no fragment.
RenderCompaction ==
    pc = "grid_rendered" =>
        /\ Len(out) = num_lines(buffer)
        /\ \A r \in 1..Len(out) :
              /\ FragmentText(out[r], 1) = buffer.text[r]
              /\ FragmentStyles(out[r], 1) = buffer.styles[r]
              /\ \A i \in 1..Len(out[r]) : out[r][i].text # <<>>
              /\ \A i \in 1..(Len(out[r]) - 1) : out[r][i].style # out[r][i + 1].style
              /\ buffer.text[r] = <<>> => out[r] = <<>>

\* render has compacted a buffer with an empty row and a row of two runs, one
\* of them of two characters.
TwoRunsAndAnEmptyRow ==
    /\ pc = "grid_rendered"
    /\ \E r \in 1..Len(out) : buffer.text[r] = <<>> /\ out[r] = <<>>
    /\ \E r \in 1..Len(out) :
          /\ Len(out[r]) = 2
          /\ Len(out[r][1].text) = 2

\* ------------------------------------------------------- grid guarantee

\* The characters of s are found in t, in their order.
RECURSIVE IsSubsequence(_, _)
IsSubsequence(s, t) ==
    IF s = <<>> THEN TRUE
    ELSE IF t = <<>> THEN FALSE
    ELSE IF Head(s) = Head(t) THEN IsSubsequence(Tail(s), Tail(t))
    ELSE IsSubsequence(s, Tail(t))

\* The row count and the length of every row have not decreased in the last call.
NeverShrinks ==
    /\ num_lines(buffer) >= OldRows
    /\ \A r \in 0..(OldRows - 1) : Len(Row(r)) >= OldLen(r)

\* C24: after any call of putc, puts, set_style, prepend or append the rows
\* and their lengths have not decreased, and the characters each row held
\* before the call are all still in the row, in the same order.
GridNeverReplaces ==
    call.op # "none" =>
        /\ NeverShrinks
        /\ \A r \in 0..(OldRows - 1) : IsSubsequence(Before.text[r + 1], Row(r))

\* The last call wrote a character to cell (r, c) of the buffer it was made on.
WrittenCell(r, c) ==
    /\ call.op \in {"putc", "puts"}
    /\ r = call.line
    /\ c >= call.col /\ c < call.col + Len(call.string)

\* How far the last call moved the cells of row r to the right.
ShiftOf(r) == IF call.op = "prepend" /\ r = call.line THEN str_len(call.string) ELSE 0

\* C24 as amended: the rows and their lengths never decrease, and every cell
\* a row held before a call is still in the row, at its column (moved right
\* by prepend by the byte length of the string), with its character unless
\* putc or puts wrote to that cell.
GridKeepsUnwrittenCells ==
    call.op # "none" =>
        /\ NeverShrinks
        /\ \A r \in 0..(OldRows - 1) :
              \A c \in 0..(OldLen(r) - 1) :
                  ~WrittenCell(r, c) => Row(r)[c + ShiftOf(r) + 1] = Before.text[r + 1][c + 1]

\* putc has put another character in a cell that held one, in a row of more
\* than one cell.
PutcOverwrote ==
    /\ call.op = "putc"
    /\ call.col < OldLen(call.line)
    /\ OldLen(call.line) > 1
    /\ Before.text[call.line + 1][call.col + 1] # call.string[1]
    /\ Before.text[call.line + 1][call.col + 1] # " "

\* ------------------------------------------------------------ set_style

\* The cell (line, col) of the last call was in the buffer the call was made on.
CellWasThere == call.line < OldRows /\ call.col < OldLen(call.line)

\* C25: set_style(line, col, style) changes only the style of the cell
\* (line, col) if the cell exists and nothing if the row or the cell does not
\* exist; the characters and the dimensions of the grid stay as they were.
SetStyleEffect ==
    call.op = "set_style" =>
        /\ num_lines(buffer) = OldRows
        /\ buffer.text = Before.text
        /\ \A r \in 0..(OldRows - 1) :
              /\ Len(RowStyles(r)) = Len(Before.styles[r + 1])
              /\ \A c \in 0..(Len(RowStyles(r)) - 1) :
                    RowStyles(r)[c + 1] =
                        IF r = call.line /\ c = call.col THEN call.style
                        ELSE Before.styles[r + 1][c + 1]
        /\ ~CellWasThere => buffer = Before

\* set_style has given a cell of a row of three cells another style.
StyleRewritten ==
    /\ call.op = "set_style"
    /\ CellWasThere
    /\ OldLen(call.line) = 3
    /\ Before.styles[call.line + 1][call.col + 1] # call.style
    /\ buffer # Before

\* -------------------------------------------------- missing source text

\* The codemap has no text for line line_number of file f.
NoText(f, line_number) == ~get_line(f, line_number - 1).some

\* C26: a line the codemap has no text for, be it an annotated line or the
\* skipped line of a gap of two, still gets its row with the line number, the
\* "|>" marker and no quoted text; every file gets its block, every annotated
\* line its rows and every note its row, as with any other line.
MissingSourceText ==
    Finished =>
        /\ Len(layout) = Len(annotated_files)
        /\ \A k \in 1..Len(layout) :
              /\ Len(layout[k].lines) = Len(annotated_files[k].lines)
              /\ \A i \in 1..Len(layout[k].lines) :
                    /\ layout[k].lines[i].end > layout[k].lines[i].line_offset + 1
                    /\ NoText(annotated_files[k].file, layout[k].lines[i].line_number)
                          => Row(layout[k].lines[i].line_offset)
                                = ContextRow(len_of_max_line_num,
                                             layout[k].lines[i].line_number, <<>>)
              /\ \A i \in 1..(Len(layout[k].lines) - 1) :
                    (/\ layout[k].lines[i + 1].line_number
                           = layout[k].lines[i].line_number + 2
                     /\ NoText(annotated_files[k].file, layout[k].lines[i].line_number + 1))
                       => /\ layout[k].lines[i].after = layout[k].lines[i].end + 1
                          /\ Row(layout[k].lines[i].end)
                                = ContextRow(len_of_max_line_num,
                                             layout[k].lines[i].line_number + 1, <<>>)
        /\ num_lines(buffer) =
              files_end + (IF msg.notes = <<>> THEN 0 ELSE 1 + Len(msg.notes))

\* A finished output of two annotated lines without text, the skipped line
\* between them without text as well, and a note after them.
ThreeLinesWithoutText ==
    /\ Finished
    /\ msg.notes # <<>>
    /\ \E k \in 1..Len(layout) :
          /\ Len(layout[k].lines) = 2
          /\ layout[k].lines[2].line_number = layout[k].lines[1].line_number + 2
          /\ \A n \in layout[k].lines[1].line_number..layout[k].lines[2].line_number :
                NoText(annotated_files[k].file, n)

\* ------------------------------------------------- primary location row

\* A row without the spaces it begins with.
RECURSIVE Unindented(_)
Unindented(row) ==
    IF row # <<>> /\ Head(row) = " " THEN Unindented(Tail(row)) ELSE row

\* The rows of the buffer that begin, after their indentation, with `mark`.
RowsStarting(mark) ==
    {r \in 0..(num_lines(buffer) - 1) :
        /\ Len(Unindented(Row(r))) >= Len(mark)
        /\ SubSeq(Unindented(Row(r)), 1, Len(mark)) = mark}

\* A span label starts in the file of the primary span.
LabelInPrimaryFile ==
    \E i \in 1..Len(msg.span_labels) :
        lookup_char_pos(msg.span_labels[i].span.lo).file.name = PrimaryFile

\* C27: an output has at most one row starting with "-->", and has one if
\* and only if a span label starts in the file of the primary span; without
\* such a label every file block is headed by a ":::" row.
PrimaryLocationPresence ==
    Finished =>
        /\ Cardinality(RowsStarting(<<"-", "-", ">">>)) <= 1
        /\ Cardinality(RowsStarting(<<"-", "-", ">">>)) = 1 <=> LabelInPrimaryFile
        /\ Cardinality(RowsStarting(<<":", ":", ":">>)) =
              Len(annotated_files) - Cardinality(RowsStarting(<<"-", "-", ">">>))

\* A finished output of two files, neither the file of the primary span.
OnlySecondaryBlocks ==
    /\ Finished
    /\ Len(layout) = 2
    /\ ~LabelInPrimaryFile
    /\ Cardinality(RowsStarting(<<":", ":", ":">>)) = 2

\* ---------------------------------------------------------- tab padding

\* The rows that hold a location ("--> ..." or "::: ...").
LocationRowSet == RowsStarting(<<"-", "-", ">">>) \cup RowsStarting(<<":", ":", ":">>)

\* The cells of row r that putc made as padding: of the rows of the notes
\* the cells before "=>", of the other rows below the header every cell
\* without a style; the header row and the location rows have none.
PaddingCells(r) ==
    IF r = 0 \/ r \in LocationRowSet THEN {}
    ELSE IF r > files_end /\ msg.notes # <<>>
         THEN 0..len_of_max_line_num
    ELSE {c \in 0..(Len(Row(r)) - 1) : RowStyles(r)[c + 1] = "NoStyle"}

\* The header row has a tab at column c.
HeaderTab(c) == c < Len(Row(0)) /\ Row(0)[c + 1] = "\t"

\* C28: in a finished output a padding cell at column c of any row is a tab
\* exactly when the header row, row 0, has a tab at column c, whatever the
\* source line above the row holds.
TabPadding ==
    Finished =>
        \A r \in 0..(num_lines(buffer) - 1) :
            \A c \in PaddingCells(r) :
                /\ RowStyles(r)[c + 1] = "NoStyle"
                /\ Row(r)[c + 1] = IF HeaderTab(c) THEN "\t" ELSE " "

\* A finished output with an underline row under a source row with a tab:
\* the padding under the tab of the source row is a space, and the padding
\* under another character of the source row, where the header has a tab, is
\* a tab.
TabUnderHeaderTab ==
    /\ Finished
    /\ \E k \in 1..Len(layout) :
          \E i \in 1..Len(layout[k].lines) :
              \E c1, c2 \in PaddingCells(layout[k].lines[i].line_offset + 1) :
                  /\ c1 < Len(Row(layout[k].lines[i].line_offset))
                  /\ c2 < Len(Row(layout[k].lines[i].line_offset))
                  /\ Row(layout[k].lines[i].line_offset)[c1 + 1] = "\t"
                  /\ Row(layout[k].lines[i].line_offset + 1)[c1 + 1] = " "
                  /\ Row(layout[k].lines[i].line_offset)[c2 + 1] # "\t"
                  /\ Row(layout[k].lines[i].line_offset + 1)[c2 + 1] = "\t"

\* --------------------------------------------------- overlapping markers

\* The annotations of anns whose columns hold p.
CoveringOf(anns, p) == {anns[j] : j \in Covering(anns, p)}

\* The greatest of a non-empty set of annotations in the derived order
\* (start_col, end_col, is_primary, is_minimized, label).
Greatest(S) == CHOOSE a \in S : \A b \in S : cmp_annotation(b, a) <= 0

\* C29: where annotations of one line cover the same column, the underline
\* row shows at that column the marker and the style of the covering
\* annotation that is greatest in the derived order, and the source row has
\* at that column the style of the greatest covering annotation that is not
\* minimized.
OverlappingMarkers ==
    Finished =>
        \A f \in 1..Len(layout) :
            \A i \in 1..Len(layout[f].lines) :
                LET r == layout[f].lines[i].line_offset
                    w == len_of_max_line_num + 3
                    anns == annotated_files[f].lines[i].annotations
                IN \A j \in 1..Len(anns) :
                      \A p \in anns[j].start_col..(anns[j].end_col - 1) :
                          /\ Cell(r + 1, w + p) = MarkerOf(Greatest(CoveringOf(anns, p)))
                          /\ StyleAt(r + 1, w + p)
                                = MarkerStyleOf(Greatest(CoveringOf(anns, p)))
                          /\ (/\ w + p < Len(Row(r))
                              /\ \E a \in CoveringOf(anns, p) : ~a.is_minimized)
                                => StyleAt(r, w + p) =
                                      MarkerStyleOf(Greatest({a \in CoveringOf(anns, p) :
                                                                 ~a.is_minimized}))

\* A finished output with a column of a primary annotation that a secondary
\* annotation greater in the derived order covers as well: the underline row
\* shows '-' there, although the label of the secondary annotation was added
\* before the label of the primary one.
DashOverPrimary ==
    /\ Finished
    /\ \E f \in 1..Len(layout) :
          \E i \in 1..Len(layout[f].lines) :
              LET r == layout[f].lines[i].line_offset
                  w == len_of_max_line_num + 3
                  anns == annotated_files[f].lines[i].annotations
              IN \E j1, j2 \in 1..Len(anns) :
                    /\ j1 < j2
                    /\ ~anns[j1].is_primary /\ anns[j2].is_primary
                    /\ cmp_annotation(anns[j2], anns[j1]) < 0
                    /\ \E p \in anns[j2].start_col..(anns[j2].end_col - 1) :
                          /\ InColumns(p, anns[j1])
                          /\ Cell(r + 1, w + p) = "-"
                          /\ StyleAt(r, w + p) = "UnderlineSecondary"

\* ------------------------------------------------------- inline label

\* The column right after the right-most marker of the annotations anns,
\* counted from the first text column; 0 when no annotation has a marker.
RECURSIVE MarkersEnd(_, _)
MarkersEnd(anns, j) ==
    IF j > Len(anns) THEN 0
    ELSE IF anns[j].start_col < anns[j].end_col /\ anns[j].end_col > MarkersEnd(anns, j + 1)
         THEN anns[j].end_col
    ELSE MarkersEnd(anns, j + 1)

\* C30: a label placed inline is written as one space and the label text,
\* starting at the column right after the last occupied cell of the
\* underline row, which is the column after the right-most marker of any
\* annotation of the line; the row ends with the label.
InlineLabelPosition ==
    Finished =>
        \A k \in 1..Len(layout) :
            \A i \in 1..Len(layout[k].lines) :
                LET anns == annotated_files[k].lines[i].annotations
                    r == layout[k].lines[i].line_offset + 1
                    from == len_of_max_line_num + 3 + MarkersEnd(anns, 1)
                IN \A j \in LastLabeled(anns) :
                      Free(anns, j) =>
                          /\ Len(Row(r)) = from + 1 + Len(anns[j].label.val)
                          /\ SubSeq(Row(r), from + 1, Len(Row(r)))
                                = <<" ">> \o anns[j].label.val
                          /\ \A c \in (from + 1)..Len(Row(r)) :
                                RowStyles(r)[c] = IF anns[j].is_primary THEN "LabelPrimary"
                                                  ELSE "LabelSecondary"
                          /\ \A c \in (len_of_max_line_num + 4)..from :
                                RowStyles(r)[c] \notin {"LabelPrimary", "LabelSecondary"}

\* A finished output with a line whose labeled annotation has an unlabeled
\* annotation to its right: the inline label stands after the underline of
\* the unlabeled annotation.
LabelAfterOtherUnderline ==
    /\ Finished
    /\ \E k \in 1..Len(layout) :
          \E i \in 1..Len(layout[k].lines) :
              LET anns == annotated_files[k].lines[i].annotations
                  r == layout[k].lines[i].line_offset + 1
              IN \E j \in LastLabeled(anns) :
                    /\ Free(anns, j)
                    /\ \E j2 \in 1..Len(anns) :
                          /\ ~anns[j2].label.some
                          /\ anns[j2].start_col >= anns[j].end_col
                          /\ anns[j2].start_col < anns[j2].end_col
                          /\ Row(r)[len_of_max_line_num + 3 + anns[j2].end_col] = "-"
                          /\ SubSeq(Row(r), len_of_max_line_num + 3 + anns[j2].end_col + 1,
                                    Len(Row(r))) = <<" ">> \o anns[j].label.val

====
